---- MODULE Spec2Model ----
(***************************************************************************)
(* Model of the per-guild playback queue and voice-session state machine   *)
(* of the Discord music bot (modules/queue_manager.py,                     *)
(* modules/resource_optimizer.py, modules/audio_player.py and the command  *)
(* handlers of modules/music_cog_refactored.py).                           *)
(*                                                                         *)
(* The bot runs on one asyncio event loop: code between two suspending     *)
(* awaits is atomic.  The variable `running' names the task that holds the *)
(* loop; a task is resumed only while no task runs, and it keeps the loop  *)
(* until it reaches its next suspending await or ends.                     *)
(***************************************************************************)
EXTENDS Integers, Sequences, FiniteSets, TLC

\* ------------------------------------------------------------------ bounds
MaxCfg == 2        \* largest max_queue_size / user_queue_limit drawn in QInit
MaxAdds == 3       \* tracks created over a run (track ids 1..MaxAdds)
MaxSessions == 2   \* VoiceState objects that exist at the same time
MaxHandles == 2    \* voice connections made over a run
MaxHits == 2       \* hits counted on a cache entry
MaxEntries == 3    \* entries of a playlist
MAX_CONCURRENT_EXTRACTIONS == 2   \* the permits of the extraction semaphore
MaxCleanRuns == 3  \* bot.run calls that return without an exception

Guilds == {1, 2}
Users == {"A", "B"}
SessUsers == {"A"}         \* users that issue voice commands
None == 0
SessGuilds == {1}          \* guilds that receive voice commands
Callers == {1, 2}          \* concurrently running command handlers
Sessions == 1..MaxSessions
NoTrack == [id |-> 0, req |-> "-"]
TrackIds == 1..MaxAdds

\* asyncio tasks: a session's playback loop, its monitor, the command handlers,
\* stop_all_voice_states and the stop() of each session that it gathers
L(s) == <<"L", s>>
M(s) == <<"M", s>>
C(c) == <<"C", c>>
G(s) == <<"G", s>>
StopAll == <<"A", 0>>
NoTask == <<"-", 0>>
TaskIds == {L(s) : s \in Sessions} \cup {M(s) : s \in Sessions} \cup {C(c) : c \in Callers}
              \cup {G(s) : s \in Sessions} \cup {StopAll}

VARIABLES
    max_queue_size,     \* QueueManager.max_queue_size
    user_queue_limit,   \* QueueManager.user_queue_limit
    faults,             \* whether calls to Discord and to the extractor may fail in this run
    guild_queues,       \* QueueManager.guild_queues: guild -> MemoryOptimizedQueue
    next_id,            \* identity of the next track (source, title) to be created
    voice_states,       \* AudioPlayerManager.voice_states: guild -> session or None
    vs,                 \* the fields of every VoiceState
    pc,                 \* where each task is suspended (or which block it runs next)
    cancel_req,         \* a CancelledError is due at the task's next step
    running,            \* the task that holds the event loop, or NoTask
    ctl,                \* the command each handler is executing
    voice_client,       \* guild.voice_client: the guild's voice handle or None
    connected,          \* is_connected() of the guild's voice handle
    next_handle,        \* identity of the next voice handle
    playing,            \* what the guild's voice handle is streaming
    members,            \* number of human members in the bot's voice channel
    started,            \* history: tracks for which voice.play succeeded, in order
    cleaned,            \* history: number of cleanup() calls on each track's source
    ret,                \* what the last direct add_to_queue / remove_song call returned or raised
    rejoined,           \* history: a human came back to the guild's channel during a grace period
    qlog,               \* history, in the runs that keep it: tracks added to / removed from each queue
    pfile,              \* the content of the queue persistence file
    psave,              \* a save of the monolithic cog that is under way
    prest,              \* the restore on startup: where it is and which entries are left
    chan,               \* what the restore finds of each guild: a channel it can send to or not
    notices,            \* restoration notices sent to each guild since the process started
    proc,               \* the process: a snapshot was written since the last restore that went through one
    cache,              \* performance_cache.cache: the entry of each cache key
    extracted,          \* how the last process_url call ended
    ix,                 \* the interactions: their response state and what handle_error sent
    pl,                 \* the playlist call: each entry's extraction, the songs and the failures
    classified,         \* the last error given to extract_error_details and its category
    boot                \* main(): where its retry loop is, retry_count, the waits so far

cfg == <<max_queue_size, user_queue_limit, faults>>
qstate == <<guild_queues, next_id>>
\* what is recorded for the properties and never read by the program
obs == <<ret, rejoined, qlog>>
qvars == <<cfg, qstate, obs>>
svars == <<voice_states, vs, pc, cancel_req, running, ctl>>
evars == <<voice_client, connected, next_handle, playing, members>>
hvars == <<started, cleaned>>
fvars == <<pfile, psave, prest, chan, notices, proc>>
xvars == <<cache, extracted, ix>>
yvars == <<pl, classified, boot>>
pvars == <<fvars, xvars, yvars>>
vars == <<qvars, svars, evars, hvars, pvars>>

\* ------------------------------------------------- MemoryOptimizedQueue
\* collections.deque.rotate(n): n steps to the right, to the left if n < 0.
Rotate(d, n) ==
    IF Len(d) = 0 THEN d
    ELSE [i \in 1..Len(d) |-> d[((i - 1 - n) % Len(d)) + 1]]

\* collections.deque(maxlen).append: a full bounded deque drops its leftmost item.
DequeAppend(d, item, maxlen) ==
    IF maxlen = 0 THEN <<>>
    ELSE IF Len(d) >= maxlen THEN Tail(d) \o <<item>>
    ELSE d \o <<item>>

NewQueue == [_queue |-> <<>>, _size |-> 0]

QLen(q) == q._size

append(q, item, maxlen) ==
    [_queue |-> DequeAppend(q._queue, item, maxlen), _size |-> q._size + 1]

\* a popleft that takes the item from the right end
popleft_newest(q) ==
    [_queue |-> SubSeq(q._queue, 1, Len(q._queue) - 1), _size |-> q._size - 1]

\* popleft is only called on a queue whose deque is non-empty (it raises otherwise).
popleft(q) ==
    [_queue |-> Tail(q._queue), _size |-> q._size - 1]

\* a removal that does not rotate the deque back
remove_by_index_no_restore(q, index) ==
    [_queue |-> Tail(Rotate(q._queue, -index)), _size |-> q._size - 1]

remove_by_index(q, index) ==
    LET r1 == Rotate(q._queue, -index)
        r2 == Tail(r1)
    IN  [_queue |-> Rotate(r2, index), _size |-> q._size - 1]

removed_item(q, index) == Head(Rotate(q._queue, -index))

\* a clear that empties the deque and keeps the counter
clear_keeps_size(q) == [_queue |-> <<>>, _size |-> q._size]

clear(q) == [_queue |-> <<>>, _size |-> 0]

getitem(q, index) ==
    LET r1 == Rotate(q._queue, -index)
    IN  [item |-> r1[1], queue |-> [q EXCEPT !._queue = Rotate(r1, index)]]

\* ---------------------------------------------------------- QueueManager
get_queue(g) == guild_queues[g]

\* a count that takes every queued song for the requester's
user_songs_of_anyone(q, u) == Len(q._queue)

user_songs(q, u) == Cardinality({i \in 1..Len(q._queue) : q._queue[i].req = u})

\* get_queue_info: the listing (a song is shown by its title and requester) and
\* the number of songs of every requester in the queue
get_queue_info(g) ==
    LET q == get_queue(g)
        songs == [i \in 1..Len(q._queue) |-> q._queue[i]]
    IN  [total_songs |-> QLen(q),
         user_counts |-> [u \in {songs[i].req : i \in 1..Len(songs)} |->
                            Cardinality({i \in 1..Len(songs) : songs[i].req = u})],
         max_queue_size |-> max_queue_size,
         user_queue_limit |-> user_queue_limit,
         songs |-> songs]

is_queue_empty(g) == QLen(get_queue(g)) = 0

get_queue_length(g) == QLen(get_queue(g))

Track(id, u) == [id |-> id, req |-> u]

\* add_to_queue raises ValueError when a limit is reached
add_raises(g, u) ==
    \/ QLen(get_queue(g)) >= max_queue_size
    \/ user_songs(get_queue(g), u) >= user_queue_limit

NoRet == [op |-> "none", guild |-> None, user |-> "-", error |-> "none",
          position |-> 0, item |-> NoTrack, value |-> None]

\* an add_to_queue that checks the per-user limit before the size of the queue
add_to_queue_result_user_first(g, u) ==
    LET q == get_queue(g) IN
    IF user_songs(q, u) >= user_queue_limit
    THEN [NoRet EXCEPT !.op = "add", !.guild = g, !.user = u, !.error = "user_limit"]
    ELSE IF QLen(q) >= max_queue_size
    THEN [NoRet EXCEPT !.op = "add", !.guild = g, !.user = u, !.error = "queue_full"]
    ELSE [NoRet EXCEPT !.op = "add", !.guild = g, !.user = u,
                       !.position = QLen(append(q, Track(next_id, u), max_queue_size)),
                       !.item = Track(next_id, u)]

\* add_to_queue: the ValueError it raises, or the queue_position it returns
add_to_queue_result(g, u) ==
    LET q == get_queue(g) IN
    IF QLen(q) >= max_queue_size
    THEN [NoRet EXCEPT !.op = "add", !.guild = g, !.user = u, !.error = "queue_full"]
    ELSE IF user_songs(q, u) >= user_queue_limit
    THEN [NoRet EXCEPT !.op = "add", !.guild = g, !.user = u, !.error = "user_limit"]
    ELSE [NoRet EXCEPT !.op = "add", !.guild = g, !.user = u,
                       !.position = QLen(append(q, Track(next_id, u), max_queue_size)),
                       !.item = Track(next_id, u)]

\* add_to_queue without its check of the queue size
add_to_queue_no_size_check(g, u) ==
    LET q == get_queue(g) IN
    /\ next_id <= MaxAdds
    /\ IF user_songs(q, u) >= user_queue_limit
       THEN UNCHANGED <<guild_queues, next_id>>
       ELSE /\ guild_queues' = [guild_queues EXCEPT ![g] = append(q, Track(next_id, u), max_queue_size)]
            /\ next_id' = next_id + 1

\* add_to_queue without its per-user check
add_to_queue_no_user_check(g, u) ==
    LET q == get_queue(g) IN
    /\ next_id <= MaxAdds
    /\ IF QLen(q) >= max_queue_size
       THEN UNCHANGED <<guild_queues, next_id>>
       ELSE /\ guild_queues' = [guild_queues EXCEPT ![g] = append(q, Track(next_id, u), max_queue_size)]
            /\ next_id' = next_id + 1

\* add_to_queue (the track's source and title are the fresh identity next_id)
add_to_queue(g, u) ==
    LET q == get_queue(g) IN
    /\ next_id <= MaxAdds
    /\ IF QLen(q) >= max_queue_size
       THEN UNCHANGED <<guild_queues, next_id>>
       ELSE IF user_songs(q, u) >= user_queue_limit
       THEN UNCHANGED <<guild_queues, next_id>>
       ELSE /\ guild_queues' = [guild_queues EXCEPT ![g] = append(q, Track(next_id, u), max_queue_size)]
            /\ next_id' = next_id + 1

\* a remove_song that takes a position beyond the end for the last song
remove_song_clamped(g, position) ==
    LET q == get_queue(g) IN
    /\ IF position < 1 \/ QLen(q) = 0
       THEN UNCHANGED guild_queues
       ELSE IF position > QLen(q)
       THEN guild_queues' = [guild_queues EXCEPT ![g] = remove_by_index(q, QLen(q) - 1)]
       ELSE guild_queues' = [guild_queues EXCEPT ![g] = remove_by_index(q, position - 1)]
    /\ UNCHANGED next_id

\* remove_song: position is 1-indexed; an invalid position raises ValueError
remove_song(g, position) ==
    LET q == get_queue(g) IN
    /\ IF position < 1 \/ position > QLen(q)
       THEN UNCHANGED guild_queues
       ELSE guild_queues' = [guild_queues EXCEPT ![g] = remove_by_index(q, position - 1)]
    /\ UNCHANGED next_id

\* remove_song: the ValueError it raises, or the removed song it returns
remove_song_result(g, position) ==
    LET q == get_queue(g) IN
    IF position < 1 \/ position > QLen(q)
    THEN [NoRet EXCEPT !.op = "remove", !.guild = g, !.position = position,
                       !.error = "invalid_position"]
    ELSE [NoRet EXCEPT !.op = "remove", !.guild = g, !.position = position,
                       !.item = removed_item(q, position - 1)]

clear_queue(g) ==
    /\ guild_queues' = [guild_queues EXCEPT ![g] = clear(get_queue(g))]
    /\ UNCHANGED next_id

\* a clear_queue that reads the length after it has cleared the queue
clear_queue_result_after(g) ==
    [NoRet EXCEPT !.op = "clear", !.guild = g, !.value = QLen(clear(get_queue(g)))]

\* clear_queue: the number it returns, len(queue) as read before the clear
clear_queue_result(g) ==
    [NoRet EXCEPT !.op = "clear", !.guild = g, !.value = QLen(get_queue(g))]

\* a get_next_song that hands out the newest track of the queue
next_song_newest(g) ==
    IF QLen(get_queue(g)) = 0 THEN NoTrack
    ELSE get_queue(g)._queue[Len(get_queue(g)._queue)]

\* get_next_song: the song it returns (NoTrack for None) and the queue it leaves
next_song(g) ==
    IF QLen(get_queue(g)) = 0 THEN NoTrack ELSE Head(get_queue(g)._queue)

get_next_song(g) ==
    LET q == get_queue(g) IN
    /\ IF QLen(q) = 0
       THEN UNCHANGED guild_queues
       ELSE guild_queues' = [guild_queues EXCEPT ![g] = popleft(q)]
    /\ UNCHANGED next_id

\* a peek_queue that takes the head out of the queue
peek_queue_pops(g) ==
    LET q == get_queue(g) IN
    /\ IF QLen(q) = 0
       THEN UNCHANGED guild_queues
       ELSE guild_queues' = [guild_queues EXCEPT ![g] = popleft(q)]
    /\ UNCHANGED next_id

peek_queue(g) ==
    LET q == get_queue(g) IN
    /\ IF QLen(q) = 0
       THEN UNCHANGED guild_queues
       ELSE guild_queues' = [guild_queues EXCEPT ![g] = getitem(q, 0).queue]
    /\ UNCHANGED next_id

\* peek_queue: the song it returns (NoTrack for None)
peek_queue_result(g) ==
    LET q == get_queue(g) IN
    IF QLen(q) = 0 THEN [NoRet EXCEPT !.op = "peek", !.guild = g]
    ELSE [NoRet EXCEPT !.op = "peek", !.guild = g, !.item = getitem(q, 0).item]

\* ------------------------------------------------------------ VoiceState
BlankVS ==
    [guild |-> None, current |-> NoTrack, current_message |-> FALSE, voice |-> None,
     next |-> FALSE, queue_ready |-> FALSE, audio_player |-> FALSE, cleanup_task |-> FALSE,
     idle_expired |-> FALSE, empty_detected |-> "none",
     stop_started |-> FALSE, disconnect_calls |-> 0]

\* VoiceState.__init__: voice is ctx.voice_client at construction; both tasks are created.
\* idle_expired stands for  now - last_activity_time >= activity_timeout ;
\* empty_detected is "none" for empty_channel_detected_time = None, "recent" while
\* now - empty_channel_detected_time < empty_channel_delay, "expired" afterwards.
NewVoiceState(g) ==
    [BlankVS EXCEPT !.guild = g, !.voice = voice_client[g],
                    !.audio_player = TRUE, !.cleanup_task = TRUE]

auto_leave_empty == TRUE

_update_activity_timestamp(r) ==
    [r EXCEPT !.idle_expired = FALSE, !.empty_detected = "none"]

\* a cleanup that leaves the current-track field as it is
_cleanup_current_song_keeps(r) == r

\* _cleanup_current_song: the record part and the cleanup() call on the source
_cleanup_current_song(r) == [r EXCEPT !.current = NoTrack]

CleanedAfter(r) ==
    IF r.current # NoTrack THEN [cleaned EXCEPT ![r.current.id] = @ + 1] ELSE cleaned

\* play_next: the completion callback given to voice.play
play_next(v, s) ==
    [v EXCEPT ![s] = [_update_activity_timestamp(@) EXCEPT !.next = TRUE]]

NoPlay == [s |-> None, t |-> 0]

IsConnected(s) ==
    /\ vs[s].voice # None
    /\ vs[s].voice = voice_client[vs[s].guild]
    /\ connected[vs[s].guild]

is_playing(s) == IsConnected(s) /\ playing[vs[s].guild].s # None

\* the voice layer ends the stream of guild g (stop, disconnect or end of track)
\* and calls the completion callback of the session that started it.  The callback
\* is invoked on the player's thread, where asyncio.get_event_loop() can raise
\* before anything is assigned: ok tells whether play_next ran to its end.
AfterStreamEnd(v, g, ok) ==
    IF playing[g].s # None /\ ok THEN play_next(v, playing[g].s) ELSE v

_is_voice_channel_empty(s) ==
    IF vs[s].voice = None THEN TRUE ELSE members[vs[s].guild] = 0

\* len(voice.channel.members): the humans and, while it is connected, the bot
MembersLen(s) ==
    members[vs[s].guild] + (IF IsConnected(s) THEN 1 ELSE 0)

\* _should_cleanup: its result and the empty_channel_detected_time it leaves
_should_cleanup(s) ==
    LET r == vs[s] IN
    IF auto_leave_empty /\ _is_voice_channel_empty(s)
    THEN IF r.empty_detected = "none"
         THEN [result |-> FALSE, detected |-> "recent"]
         ELSE IF r.empty_detected = "expired"
         THEN [result |-> TRUE, detected |-> r.empty_detected]
         ELSE [result |-> r.idle_expired, detected |-> r.empty_detected]
    ELSE [result |-> r.idle_expired, detected |-> "none"]

\* ------------------------------------------------------- asyncio tasks
LDone(s) == pc[L(s)] \in {"done", "cancelled"}
MDone(s) == pc[M(s)] \in {"done", "cancelled"}

\* the loop awaits the monitor (in its finally) while the monitor awaits the loop
\* (in stop): Task.cancel() on either recurses through _fut_waiter without end
Cycle(s) == pc[L(s)] = "fin_awaitM" /\ pc[M(s)] = "stop_awaitL"

\* Task.cancel() on the loop task: a task that waits on another task passes the
\* request on to it; otherwise the CancelledError is due at the task's next step
CancelL(s) ==
    IF LDone(s) THEN cancel_req
    ELSE IF pc[L(s)] = "fin_awaitM" /\ ~MDone(s) THEN [cancel_req EXCEPT ![M(s)] = TRUE]
    ELSE [cancel_req EXCEPT ![L(s)] = TRUE]

CancelM(s) ==
    IF MDone(s) THEN cancel_req
    ELSE IF pc[M(s)] = "stop_awaitL" /\ ~LDone(s) THEN [cancel_req EXCEPT ![L(s)] = TRUE]
    ELSE [cancel_req EXCEPT ![M(s)] = TRUE]

\* the session a task's stop() works on
Target(T) == IF T[1] \in {"M", "G"} THEN T[2] ELSE ctl[T[2]].target

\* a VoiceState exists from its construction until nothing refers to it any more:
\* the registry, a handler that is stopping it, its own unfinished tasks, or the
\* player that holds its completion callback
Allocated(s) == pc[L(s)] # "none"

Referenced(s) ==
    \/ \E g \in Guilds : voice_states[g] = s \/ playing[g].s = s
    \/ \E c \in Callers : ctl[c].target = s
    \/ pc[StopAll] = "gather" /\ pc[G(s)] # "none"
    \/ pc[L(s)] \notin {"none", "done", "cancelled"}
    \/ pc[M(s)] \notin {"none", "done", "cancelled"}

Collectable(s) == Allocated(s) /\ ~Referenced(s)

\* the outcomes an awaited call to the outside can have in this run
Outcomes(all, good) == IF faults THEN all ELSE good

\* the event loop is free to resume a task or to dispatch an event
Idle == running = NoTask /\ \A s \in Sessions : ~Collectable(s)
Suspend == running' = NoTask

\* an unreferenced VoiceState is freed together with its finished tasks
Collect(s) ==
    /\ running = NoTask /\ Collectable(s)
    /\ vs' = [vs EXCEPT ![s] = BlankVS]
    /\ pc' = [pc EXCEPT ![L(s)] = "none", ![M(s)] = "none"]
    /\ cancel_req' = [cancel_req EXCEPT ![L(s)] = FALSE, ![M(s)] = FALSE]
    /\ UNCHANGED <<qvars, pvars, voice_states, running, ctl, evars, hvars>>

\* ------------------------------------------- VoiceState.audio_player_task
\* first step of the task: enter the try and the while loop
LStart(s) ==
    /\ Idle /\ pc[L(s)] = "init" /\ ~cancel_req[L(s)]
    /\ running' = L(s)
    /\ pc' = [pc EXCEPT ![L(s)] = "top"]
    /\ UNCHANGED <<qvars, pvars, voice_states, vs, cancel_req, ctl, evars, hvars>>

\* await self.queue_ready.wait(); self.queue_ready.clear(); continue
\* (Event.wait returns at once when the event is set)
LEmptyWait(s, r) ==
    IF r.queue_ready
    THEN /\ vs' = [vs EXCEPT ![s] = [r EXCEPT !.queue_ready = FALSE]]
         /\ pc' = [pc EXCEPT ![L(s)] = "top"]
         /\ running' = L(s)
    ELSE /\ vs' = [vs EXCEPT ![s] = r]
         /\ pc' = [pc EXCEPT ![L(s)] = "wait_queue"]
         /\ Suspend

\* head of the while loop up to the first suspending await of the iteration
LTop(s) ==
    LET g == vs[s].guild
        r0 == [vs[s] EXCEPT !.next = FALSE]
    IN
    /\ running = L(s) /\ pc[L(s)] = "top"
    /\ UNCHANGED <<cfg, pvars, obs, voice_states, cancel_req, ctl, evars, started>>
    /\ IF is_queue_empty(g)
       THEN /\ UNCHANGED <<qstate, cleaned>>
            /\ IF r0.current_message
               THEN /\ vs' = [vs EXCEPT ![s] = r0]
                    /\ pc' = [pc EXCEPT ![L(s)] = "del_msg"]
                    /\ Suspend
               ELSE LEmptyWait(s, _update_activity_timestamp(r0))
       ELSE IF Len(get_queue(g)._queue) = 0
       THEN \* popleft raises IndexError: handled as a failed song, continue
            /\ UNCHANGED qstate
            /\ cleaned' = CleanedAfter(r0)
            /\ vs' = [vs EXCEPT ![s] = _cleanup_current_song(r0)]
            /\ UNCHANGED <<pc, running>>
       ELSE /\ get_next_song(g)
            /\ cleaned' = CleanedAfter(r0)
            /\ vs' = [vs EXCEPT ![s] = [r0 EXCEPT !.current = next_song(g)]]
            /\ pc' = [pc EXCEPT ![L(s)] = "announce"]
            /\ Suspend

\* _handle_empty_queue resumes after current_message.delete(): deleted (or
\* HTTPException, swallowed), or another exception that nothing in the loop handles
LDelMsgDone(s) ==
    /\ Idle /\ pc[L(s)] = "del_msg" /\ ~cancel_req[L(s)]
    /\ UNCHANGED <<qvars, pvars, voice_states, cancel_req, ctl, evars, hvars>>
    /\ \E ok \in Outcomes(BOOLEAN, {TRUE}) :
        IF ok
        THEN LEmptyWait(s, _update_activity_timestamp([vs[s] EXCEPT !.current_message = FALSE]))
        ELSE /\ pc' = [pc EXCEPT ![L(s)] = "finally"]
             /\ running' = L(s)
             /\ UNCHANGED vs

LWaitQueueWake(s) ==
    /\ Idle /\ pc[L(s)] = "wait_queue" /\ ~cancel_req[L(s)]
    /\ vs[s].queue_ready
    /\ vs' = [vs EXCEPT ![s].queue_ready = FALSE]
    /\ pc' = [pc EXCEPT ![L(s)] = "top"]
    /\ running' = L(s)
    /\ UNCHANGED <<qvars, pvars, voice_states, cancel_req, ctl, evars, hvars>>

\* _send_now_playing_message resumes: sent, HTTPException (logged inside), or
\* another exception, which the except around the dequeue turns into a skip
LAnnounceDone(s) ==
    /\ Idle /\ pc[L(s)] = "announce" /\ ~cancel_req[L(s)]
    /\ UNCHANGED <<qvars, pvars, voice_states, cancel_req, ctl, evars, started>>
    /\ running' = L(s)
    /\ \E outcome \in Outcomes({"sent", "http_error", "raise"}, {"sent"}) :
        IF outcome = "raise"
        THEN /\ cleaned' = CleanedAfter(vs[s])
             /\ vs' = [vs EXCEPT ![s] = _cleanup_current_song(@)]
             /\ pc' = [pc EXCEPT ![L(s)] = "top"]
        ELSE /\ vs' = [vs EXCEPT ![s] = _update_activity_timestamp(
                          [@ EXCEPT !.current_message = IF outcome = "sent" THEN TRUE ELSE @])]
             /\ pc' = [pc EXCEPT ![L(s)] = "play"]
             /\ UNCHANGED cleaned

\* voice.play raises when the handle is not connected, is already playing, or the
\* player cannot be started
LPlay(s) ==
    LET g == vs[s].guild
        r == vs[s]
    IN
    /\ running = L(s) /\ pc[L(s)] = "play"
    /\ UNCHANGED <<qvars, pvars, voice_states, vs, cancel_req, ctl,
                   voice_client, connected, next_handle, members, cleaned>>
    /\ IF r.voice # None /\ r.current # NoTrack
       THEN \E fail \in Outcomes(BOOLEAN, {FALSE}) :
              IF fail \/ ~IsConnected(s) \/ playing[g].s # None
              THEN \* except Exception: _handle_playback_error sends to the channel
                   /\ pc' = [pc EXCEPT ![L(s)] = "err_notify"]
                   /\ Suspend
                   /\ UNCHANGED <<playing, started>>
              ELSE /\ playing' = [playing EXCEPT ![g] = [s |-> s, t |-> r.current.id]]
                   /\ started' = [started EXCEPT ![g] = Append(@, r.current.id)]
                   /\ IF r.next
                      THEN pc' = [pc EXCEPT ![L(s)] = "top"] /\ UNCHANGED running
                      ELSE pc' = [pc EXCEPT ![L(s)] = "wait_next"] /\ Suspend
       ELSE \* no voice client: continue
            /\ pc' = [pc EXCEPT ![L(s)] = "top"]
            /\ UNCHANGED <<running, playing, started>>

\* await self.next.wait() returns: nothing follows it inside the try
LWaitNextWake(s) ==
    /\ Idle /\ pc[L(s)] = "wait_next" /\ ~cancel_req[L(s)]
    /\ vs[s].next
    /\ pc' = [pc EXCEPT ![L(s)] = "top"]
    /\ running' = L(s)
    /\ UNCHANGED <<qvars, pvars, voice_states, vs, cancel_req, ctl, evars, hvars>>

\* rest of the except block after a failed voice.play
LErrNotifyDone(s) ==
    /\ Idle /\ pc[L(s)] = "err_notify" /\ ~cancel_req[L(s)]
    /\ cleaned' = CleanedAfter(vs[s])
    /\ vs' = [vs EXCEPT ![s] = _cleanup_current_song(@)]
    /\ pc' = [pc EXCEPT ![L(s)] = "top"]
    /\ running' = L(s)
    /\ UNCHANGED <<qvars, pvars, voice_states, cancel_req, ctl, evars, started>>

\* the CancelledError reaches the loop task where it is suspended
LCancelled(s) ==
    /\ Idle /\ cancel_req[L(s)]
    /\ \/ pc[L(s)] \in {"init", "wait_queue", "del_msg", "announce", "wait_next", "err_notify"}
       \/ pc[L(s)] = "fin_awaitM" /\ MDone(s)
    /\ cancel_req' = [cancel_req EXCEPT ![L(s)] = FALSE]
    /\ UNCHANGED <<qvars, pvars, voice_states, ctl, evars, hvars>>
    /\ IF pc[L(s)] = "init"
       THEN \* cancelled before its first step: the coroutine body never runs
            /\ pc' = [pc EXCEPT ![L(s)] = "cancelled"]
            /\ UNCHANGED <<vs, running>>
       ELSE IF pc[L(s)] = "fin_awaitM"
       THEN \* caught in _cancel_cleanup_task
            /\ pc' = [pc EXCEPT ![L(s)] = "done"]
            /\ vs' = [vs EXCEPT ![s].cleanup_task = FALSE]
            /\ UNCHANGED running
       ELSE /\ pc' = [pc EXCEPT ![L(s)] = "finally"]
            /\ running' = L(s)
            /\ UNCHANGED vs

\* finally: _cleanup_current_song, _cancel_cleanup_task
LFinally(s) ==
    LET r1 == _cleanup_current_song(vs[s]) IN
    /\ running = L(s) /\ pc[L(s)] = "finally"
    /\ cleaned' = CleanedAfter(vs[s])
    /\ Suspend
    /\ UNCHANGED <<qvars, pvars, voice_states, ctl, evars, started>>
    /\ IF r1.cleanup_task /\ pc[M(s)] # "cancelled"
       THEN /\ cancel_req' = CancelM(s)
            /\ IF MDone(s)
               THEN /\ vs' = [vs EXCEPT ![s] = [r1 EXCEPT !.cleanup_task = FALSE]]
                    /\ pc' = [pc EXCEPT ![L(s)] = "done"]
               ELSE /\ vs' = [vs EXCEPT ![s] = r1]
                    /\ pc' = [pc EXCEPT ![L(s)] = "fin_awaitM"]
       ELSE /\ vs' = [vs EXCEPT ![s] = r1]
            /\ pc' = [pc EXCEPT ![L(s)] = "done"]
            /\ UNCHANGED cancel_req

\* await self.cleanup_task returns in the loop's finally
LAwaitMWake(s) ==
    /\ Idle /\ pc[L(s)] = "fin_awaitM" /\ MDone(s) /\ ~cancel_req[L(s)]
    /\ vs' = [vs EXCEPT ![s].cleanup_task = FALSE]
    /\ pc' = [pc EXCEPT ![L(s)] = "done"]
    /\ UNCHANGED <<qvars, pvars, voice_states, cancel_req, running, ctl, evars, hvars>>

\* ------------------------------------- VoiceState.efficient_cleanup_monitor
MStart(s) ==
    /\ Idle /\ pc[M(s)] = "init" /\ ~cancel_req[M(s)]
    /\ pc' = [pc EXCEPT ![M(s)] = "sleep"]
    /\ UNCHANGED <<qvars, pvars, voice_states, vs, cancel_req, running, ctl, evars, hvars>>

\* a check that looks neither at the queue nor at the current track
TearsDown_any_queue(s) ==
    /\ _should_cleanup(s).result
    /\ vs[s].voice # None /\ MembersLen(s) <= 1

\* the three nested conditions under which a periodic check calls stop()
TearsDown(s) ==
    /\ _should_cleanup(s).result
    /\ is_queue_empty(vs[s].guild) /\ vs[s].current = NoTrack
    /\ vs[s].voice # None /\ MembersLen(s) <= 1

\* asyncio.sleep(cleanup_check_interval) returns: one periodic check
MCheck(s) ==
    LET sc == _should_cleanup(s)
        r1 == [vs[s] EXCEPT !.empty_detected = sc.detected]
    IN
    /\ Idle /\ pc[M(s)] = "sleep" /\ ~cancel_req[M(s)]
    /\ pc[L(s)] # "init"
    /\ vs' = [vs EXCEPT ![s] = r1]
    /\ IF TearsDown(s)
       THEN /\ pc' = [pc EXCEPT ![M(s)] = "stop_A"]
            /\ running' = M(s)
       ELSE UNCHANGED <<pc, running>>
    /\ UNCHANGED <<qvars, pvars, voice_states, cancel_req, ctl, evars, hvars>>

\* the CancelledError reaches the monitor task where it is suspended
MCancelled(s) ==
    /\ Idle /\ cancel_req[M(s)]
    /\ pc[M(s)] \in {"init", "sleep", "stop_disc", "stop_delmsg", "notice"}
    /\ cancel_req' = [cancel_req EXCEPT ![M(s)] = FALSE]
    /\ pc' = [pc EXCEPT ![M(s)] = IF pc[M(s)] = "init" THEN "cancelled" ELSE "done"]
    /\ vs' = IF pc[M(s)] = "stop_disc" THEN [vs EXCEPT ![s].voice = None] ELSE vs
    /\ UNCHANGED <<qvars, pvars, voice_states, running, ctl, evars, hvars>>

\* the inactivity notice was sent: break
MNoticeDone(s) ==
    /\ Idle /\ pc[M(s)] = "notice" /\ ~cancel_req[M(s)]
    /\ pc' = [pc EXCEPT ![M(s)] = "done"]
    /\ UNCHANGED <<qvars, pvars, voice_states, vs, cancel_req, running, ctl, evars, hvars>>

\* ------------------------------------------------------- VoiceState.stop
\* stop() is run by the monitor task of the session or by a command handler.
\* Entry: cancel the audio player task and await it.
Stop_A(T) ==
    LET s == Target(T) IN
    /\ running = T /\ pc[T] = "stop_A"
    /\ UNCHANGED <<qvars, pvars, voice_states, ctl, evars, hvars>>
    /\ IF vs[s].audio_player /\ pc[L(s)] # "cancelled"
       THEN IF Cycle(s)
            THEN \* cancel() raises RecursionError: logged by the outer except
                 /\ vs' = [vs EXCEPT ![s].stop_started = TRUE]
                 /\ pc' = [pc EXCEPT ![T] = "stop_end"]
                 /\ UNCHANGED <<cancel_req, running>>
            ELSE /\ cancel_req' = CancelL(s)
                 /\ IF LDone(s)
                    THEN /\ vs' = [vs EXCEPT ![s].stop_started = TRUE, ![s].audio_player = FALSE]
                         /\ pc' = [pc EXCEPT ![T] = "stop_B"]
                         /\ UNCHANGED running
                    ELSE /\ vs' = [vs EXCEPT ![s].stop_started = TRUE]
                         /\ pc' = [pc EXCEPT ![T] = "stop_awaitL"]
                         /\ Suspend
       ELSE /\ vs' = [vs EXCEPT ![s].stop_started = TRUE]
            /\ pc' = [pc EXCEPT ![T] = "stop_B"]
            /\ UNCHANGED <<cancel_req, running>>

\* await self.audio_player returns or raises CancelledError (passed); finally
Stop_AwaitLWake(T) ==
    LET s == Target(T) IN
    /\ Idle /\ pc[T] = "stop_awaitL" /\ LDone(s)
    /\ vs' = [vs EXCEPT ![s].audio_player = FALSE]
    /\ cancel_req' = [cancel_req EXCEPT ![T] = FALSE]
    /\ pc' = [pc EXCEPT ![T] = "stop_B"]
    /\ running' = T
    /\ UNCHANGED <<qvars, pvars, voice_states, ctl, evars, hvars>>

\* _cancel_cleanup_task as called from stop
Stop_B(T) ==
    LET s == Target(T) IN
    /\ running = T /\ pc[T] = "stop_B"
    /\ UNCHANGED <<qvars, pvars, voice_states, ctl, evars, hvars>>
    /\ IF vs[s].cleanup_task /\ pc[M(s)] # "cancelled"
       THEN IF T = M(s) \/ Cycle(s)
            THEN \* the task cancels and awaits itself, or cancel() raises: caught
                 /\ vs' = [vs EXCEPT ![s].cleanup_task = FALSE]
                 /\ pc' = [pc EXCEPT ![T] = "stop_C"]
                 /\ UNCHANGED <<cancel_req, running>>
            ELSE /\ cancel_req' = CancelM(s)
                 /\ IF MDone(s)
                    THEN /\ vs' = [vs EXCEPT ![s].cleanup_task = FALSE]
                         /\ pc' = [pc EXCEPT ![T] = "stop_C"]
                         /\ UNCHANGED running
                    ELSE /\ pc' = [pc EXCEPT ![T] = "stop_awaitM"]
                         /\ Suspend
                         /\ UNCHANGED vs
       ELSE /\ pc' = [pc EXCEPT ![T] = "stop_C"]
            /\ UNCHANGED <<vs, cancel_req, running>>

Stop_AwaitMWake(T) ==
    LET s == Target(T) IN
    /\ Idle /\ pc[T] = "stop_awaitM" /\ MDone(s)
    /\ vs' = [vs EXCEPT ![s].cleanup_task = FALSE]
    /\ pc' = [pc EXCEPT ![T] = "stop_C"]
    /\ running' = T
    /\ UNCHANGED <<qvars, pvars, voice_states, cancel_req, ctl, evars, hvars>>

\* _cleanup_current_song, then: if self.voice: stop the player, await disconnect()
Stop_C(T) ==
    LET s == Target(T)
        g == vs[s].guild
        r1 == _cleanup_current_song(vs[s])
    IN
    /\ running = T /\ pc[T] = "stop_C"
    /\ cleaned' = CleanedAfter(vs[s])
    /\ UNCHANGED <<qvars, pvars, voice_states, cancel_req, ctl,
                   voice_client, next_handle, members, started>>
    /\ IF r1.voice # None
       THEN IF IsConnected(s)
            THEN /\ \E ok \in BOOLEAN :
                      vs' = AfterStreamEnd(
                              [vs EXCEPT ![s] = [r1 EXCEPT !.disconnect_calls = @ + 1]], g, ok)
                 /\ playing' = [playing EXCEPT ![g] = NoPlay]
                 /\ connected' = [connected EXCEPT ![g] = FALSE]
                 /\ pc' = [pc EXCEPT ![T] = "stop_disc"]
                 /\ Suspend
            ELSE \* disconnect() on a handle that is not connected returns at once
                 /\ vs' = [vs EXCEPT ![s] = [r1 EXCEPT !.disconnect_calls = @ + 1,
                                                       !.voice = None]]
                 /\ pc' = [pc EXCEPT ![T] = "stop_D"]
                 /\ UNCHANGED <<playing, connected, running>>
       ELSE /\ vs' = [vs EXCEPT ![s] = r1]
            /\ pc' = [pc EXCEPT ![T] = "stop_D"]
            /\ UNCHANGED <<playing, connected, running>>

\* voice.disconnect() has finished: finally self.voice = None
Stop_DiscDone(T) ==
    LET s == Target(T)
        g == vs[s].guild
    IN
    /\ Idle /\ pc[T] = "stop_disc" /\ ~cancel_req[T]
    /\ voice_client' = [voice_client EXCEPT ![g] = None]
    /\ vs' = [vs EXCEPT ![s].voice = None]
    /\ pc' = [pc EXCEPT ![T] = "stop_D"]
    /\ running' = T
    /\ UNCHANGED <<qvars, pvars, voice_states, cancel_req, ctl,
                   connected, next_handle, playing, members, hvars>>

\* _delete_current_message as called from stop
Stop_D(T) ==
    LET s == Target(T) IN
    /\ running = T /\ pc[T] = "stop_D"
    /\ IF vs[s].current_message
       THEN pc' = [pc EXCEPT ![T] = "stop_delmsg"] /\ Suspend
       ELSE pc' = [pc EXCEPT ![T] = "stop_end"] /\ UNCHANGED running
    /\ UNCHANGED <<qvars, pvars, voice_states, vs, cancel_req, ctl, evars, hvars>>

Stop_DelDone(T) ==
    LET s == Target(T) IN
    /\ Idle /\ pc[T] = "stop_delmsg" /\ ~cancel_req[T]
    /\ vs' = [vs EXCEPT ![s].current_message = FALSE]
    /\ pc' = [pc EXCEPT ![T] = "stop_end"]
    /\ running' = T
    /\ UNCHANGED <<qvars, pvars, voice_states, cancel_req, ctl, evars, hvars>>

\* stop() returns to the monitor: send the inactivity notice.  (No specification
\* below takes this step or MNoticeDone: a stop() run by the monitor never returns,
\* see Cycle.)
MStopReturn(s) ==
    /\ running = M(s) /\ pc[M(s)] = "stop_end"
    /\ pc' = [pc EXCEPT ![M(s)] = "notice"]
    /\ Suspend
    /\ UNCHANGED <<qvars, pvars, voice_states, vs, cancel_req, ctl, evars, hvars>>

\* ---------------------------------------------------- AudioPlayerManager
\* get_voice_state: the session it returns and the registry it leaves
\* (a new VoiceState gets the next free identity and two fresh tasks)
FreeSlots == {s \in Sessions : ~Allocated(s)}

get_voice_state(g) ==
    LET creates == voice_states[g] = None \/ voice_client[g] = None
        s == IF ~creates THEN voice_states[g]
             ELSE IF FreeSlots = {} THEN None
             ELSE CHOOSE f \in FreeSlots : \A f2 \in FreeSlots : f <= f2
    IN  [state |-> s, creates |-> creates,
         voice_states |-> [voice_states EXCEPT ![g] = s],
         vs |-> IF creates THEN [vs EXCEPT ![s] = NewVoiceState(g)] ELSE vs,
         pc |-> IF creates THEN [pc EXCEPT ![L(s)] = "init", ![M(s)] = "init"] ELSE pc]

\* a remove_voice_state that empties the registry
remove_voice_state_all(g) == [h \in Guilds |-> None]

remove_voice_state(g) == [voice_states EXCEPT ![g] = None]

\* signal_queue_ready on the registry as it is after get_voice_state
signal_queue_ready(v, reg, g) ==
    IF reg[g] # None THEN [v EXCEPT ![reg[g]].queue_ready = TRUE] ELSE v

\* the sessions in the registry
Registered == {s \in Sessions : \E g \in Guilds : voice_states[g] = s}

\* stop_all_voice_states up to its await: one stop() per registered session,
\* handed to asyncio.gather
StopAllBegin ==
    /\ Idle /\ pc[StopAll] = "none"
    /\ IF Registered = {}
       THEN /\ pc' = [pc EXCEPT ![StopAll] = "done"]
            /\ voice_states' = [g \in Guilds |-> None]
       ELSE /\ pc' = [T \in TaskIds |->
                        IF T = StopAll THEN "gather"
                        ELSE IF T[1] = "G" /\ T[2] \in Registered THEN "ready"
                        ELSE pc[T]]
            /\ UNCHANGED voice_states
    /\ UNCHANGED <<qvars, pvars, vs, cancel_req, running, ctl, evars, hvars>>

\* a gathered stop() starts to run
GStart(s) ==
    /\ Idle /\ pc[G(s)] = "ready"
    /\ pc' = [pc EXCEPT ![G(s)] = "stop_A"]
    /\ running' = G(s)
    /\ UNCHANGED <<qvars, pvars, voice_states, vs, cancel_req, ctl, evars, hvars>>

\* a gathered stop() returns
GStopReturn(s) ==
    /\ running = G(s) /\ pc[G(s)] = "stop_end"
    /\ pc' = [pc EXCEPT ![G(s)] = "done"]
    /\ Suspend
    /\ UNCHANGED <<qvars, pvars, voice_states, vs, cancel_req, ctl, evars, hvars>>

\* asyncio.gather returns when every stop() has ended: voice_states.clear()
StopAllEnd ==
    /\ Idle /\ pc[StopAll] = "gather"
    /\ \A s \in Sessions : pc[G(s)] \in {"none", "done"}
    /\ voice_states' = [g \in Guilds |-> None]
    /\ pc' = [pc EXCEPT ![StopAll] = "done"]
    /\ UNCHANGED <<qvars, pvars, vs, cancel_req, running, ctl, evars, hvars>>

\* ------------------------------------------------------ command handlers
NoCmd == [kind |-> "none", guild |-> None, user |-> "-", target |-> None]

\* play up to the await of get_context: _ensure_voice_client joins the user's
\* channel when the guild has no voice client
PlayBegin(c, g, u) ==
    /\ Idle /\ pc[C(c)] = "idle"
    /\ next_id <= MaxAdds
    /\ IF voice_client[g] = None
       THEN /\ members[g] > 0
            /\ next_handle <= MaxHandles
            /\ voice_client' = [voice_client EXCEPT ![g] = next_handle]
            /\ connected' = [connected EXCEPT ![g] = TRUE]
            /\ next_handle' = next_handle + 1
       ELSE UNCHANGED <<voice_client, connected, next_handle>>
    /\ pc' = [pc EXCEPT ![C(c)] = "ctx"]
    /\ ctl' = [ctl EXCEPT ![c] = [kind |-> "play", guild |-> g, user |-> u, target |-> None]]
    /\ UNCHANGED <<qvars, pvars, voice_states, vs, cancel_req, running,
                   playing, members, hvars>>

\* the single-song request of play: resolve the query and enqueue the track
_handle_single_song_request(g, u) == add_to_queue(g, u)

\* play after get_context: get_voice_state, enqueue, signal_queue_ready
\* (a ValueError from the extraction or from the queue limits returns before the signal)
PlayCtx(c) ==
    LET g == ctl[c].guild
        gv == get_voice_state(g)
    IN
    /\ Idle /\ pc[C(c)] = "ctx" /\ ctl[c].kind = "play"
    /\ gv.creates => FreeSlots # {}
    /\ voice_states' = gv.voice_states
    /\ pc' = [gv.pc EXCEPT ![C(c)] = "idle"]
    /\ ctl' = [ctl EXCEPT ![c] = NoCmd]
    /\ \/ /\ _handle_single_song_request(g, ctl[c].user)
          /\ vs' = IF add_raises(g, ctl[c].user)
                   THEN gv.vs
                   ELSE signal_queue_ready(gv.vs, gv.voice_states, g)
       \/ /\ faults
          /\ vs' = gv.vs
          /\ UNCHANGED qstate
    /\ UNCHANGED <<cfg, pvars, obs, cancel_req, running, evars, hvars>>

\* leave and skip up to the await of get_context
CmdBegin(c, g, kind) ==
    /\ Idle /\ pc[C(c)] = "idle"
    /\ voice_client[g] # None
    /\ pc' = [pc EXCEPT ![C(c)] = "ctx"]
    /\ ctl' = [ctl EXCEPT ![c] = [kind |-> kind, guild |-> g, user |-> "-", target |-> None]]
    /\ UNCHANGED <<qvars, pvars, voice_states, vs, cancel_req, running, evars, hvars>>

\* leave after get_context: get_voice_state, then state.stop() begins
LeaveCtx(c) ==
    LET g == ctl[c].guild
        gv == get_voice_state(g)
    IN
    /\ Idle /\ pc[C(c)] = "ctx" /\ ctl[c].kind = "leave"
    /\ gv.creates => FreeSlots # {}
    /\ voice_states' = gv.voice_states
    /\ vs' = gv.vs
    /\ pc' = [gv.pc EXCEPT ![C(c)] = "stop_A"]
    /\ ctl' = [ctl EXCEPT ![c].target = gv.state]
    /\ running' = C(c)
    /\ UNCHANGED <<qvars, pvars, cancel_req, evars, hvars>>

\* stop() returns to leave: remove_voice_state, clear_queue
LeaveStopReturn(c) ==
    LET g == ctl[c].guild IN
    /\ running = C(c) /\ pc[C(c)] = "stop_end"
    /\ voice_states' = remove_voice_state(g)
    /\ clear_queue(g)
    /\ pc' = [pc EXCEPT ![C(c)] = "idle"]
    /\ ctl' = [ctl EXCEPT ![c] = NoCmd]
    /\ Suspend
    /\ UNCHANGED <<cfg, pvars, obs, vs, cancel_req, evars, hvars>>

\* skip after get_context: state.is_playing() and state.skip()
SkipCtx(c) ==
    LET g == ctl[c].guild
        gv == get_voice_state(g)
        s == gv.state
        isp == gv.vs[s].voice # None /\ gv.vs[s].voice = voice_client[g]
                   /\ connected[g] /\ playing[g].s # None
    IN
    /\ Idle /\ pc[C(c)] = "ctx" /\ ctl[c].kind = "skip"
    /\ gv.creates => FreeSlots # {}
    /\ voice_states' = gv.voice_states
    /\ pc' = [gv.pc EXCEPT ![C(c)] = "idle"]
    /\ ctl' = [ctl EXCEPT ![c] = NoCmd]
    /\ IF isp
       THEN /\ \E ok \in BOOLEAN : vs' = AfterStreamEnd(gv.vs, g, ok)
            /\ playing' = [playing EXCEPT ![g] = NoPlay]
       ELSE /\ vs' = gv.vs
            /\ UNCHANGED playing
    /\ UNCHANGED <<qvars, pvars, cancel_req, running, voice_client, connected, next_handle,
                   members, hvars>>

\* --------------------------------------------- QueueManager calls as steps
Positions == 0..(MaxCfg + 1)

\* the log after a call with outcome r: a call that raised adds nothing, and
\* nothing is added where no log is kept
NoLog == [kept |-> FALSE, adds |-> {}, removes |-> {}]

Logged(log, r) ==
    IF r.error # "none" \/ ~log[r.guild].kept THEN log
    ELSE IF r.op = "add" THEN [log EXCEPT ![r.guild].adds = @ \cup {r.item.id}]
    ELSE [log EXCEPT ![r.guild].removes = @ \cup {r.item.id}]

AddToQueue(g, u) ==
    /\ Idle
    /\ add_to_queue(g, u)
    /\ ret' = add_to_queue_result(g, u)
    /\ qlog' = Logged(qlog, add_to_queue_result(g, u))
    /\ UNCHANGED <<cfg, pvars, rejoined, svars, evars, hvars>>

RemoveSong(g, position) ==
    /\ Idle
    /\ remove_song(g, position)
    /\ ret' = remove_song_result(g, position)
    /\ qlog' = Logged(qlog, remove_song_result(g, position))
    /\ UNCHANGED <<cfg, pvars, rejoined, svars, evars, hvars>>

\* remove_song called while the bot runs: its outcome goes to the user who asked
RemoveCmd(g, position) ==
    /\ Idle
    /\ remove_song(g, position)
    /\ UNCHANGED <<cfg, pvars, obs, svars, evars, hvars>>

ClearQueue(g) ==
    /\ Idle
    /\ clear_queue(g)
    /\ UNCHANGED <<cfg, pvars, obs, svars, evars, hvars>>

\* clear_queue with what it returns
Clear(g) ==
    /\ Idle
    /\ clear_queue(g)
    /\ ret' = clear_queue_result(g)
    /\ UNCHANGED <<cfg, pvars, rejoined, qlog, svars, evars, hvars>>

GetNextSong(g) ==
    /\ Idle
    /\ get_next_song(g)
    /\ UNCHANGED <<cfg, pvars, obs, svars, evars, hvars>>

PeekQueue(g) ==
    /\ Idle
    /\ peek_queue(g)
    /\ UNCHANGED <<cfg, pvars, obs, svars, evars, hvars>>

\* the calls that only read a queue, with what they return
Peek(g) ==
    /\ Idle
    /\ peek_queue(g)
    /\ ret' = peek_queue_result(g)
    /\ UNCHANGED <<cfg, pvars, rejoined, qlog, svars, evars, hvars>>

GetQueueInfo(g) ==
    /\ Idle
    /\ ret' = [NoRet EXCEPT !.op = "info", !.guild = g, !.value = get_queue_info(g)]
    /\ UNCHANGED <<cfg, pvars, qstate, rejoined, qlog, svars, evars, hvars>>

IsQueueEmpty(g) ==
    /\ Idle
    /\ ret' = [NoRet EXCEPT !.op = "empty", !.guild = g, !.value = is_queue_empty(g)]
    /\ UNCHANGED <<cfg, pvars, qstate, rejoined, qlog, svars, evars, hvars>>

GetQueueLength(g) ==
    /\ Idle
    /\ ret' = [NoRet EXCEPT !.op = "length", !.guild = g, !.value = get_queue_length(g)]
    /\ UNCHANGED <<cfg, pvars, qstate, rejoined, qlog, svars, evars, hvars>>

\* ------------------------------------------------------------ environment
\* the stream of the guild's voice handle reaches its end
TrackFinished(g) ==
    /\ Idle /\ playing[g].s # None
    /\ \E ok \in BOOLEAN : vs' = AfterStreamEnd(vs, g, ok)
    /\ playing' = [playing EXCEPT ![g] = NoPlay]
    /\ UNCHANGED <<qvars, pvars, voice_states, pc, cancel_req, running, ctl,
                   voice_client, connected, next_handle, members, hvars>>

\* the voice connection is lost or the bot is removed from the channel
ExternalDisconnect(g) ==
    /\ Idle /\ voice_client[g] # None /\ connected[g]
    /\ voice_client' = [voice_client EXCEPT ![g] = None]
    /\ connected' = [connected EXCEPT ![g] = FALSE]
    /\ \E ok \in BOOLEAN : vs' = AfterStreamEnd(vs, g, ok)
    /\ playing' = [playing EXCEPT ![g] = NoPlay]
    /\ UNCHANGED <<qvars, pvars, voice_states, pc, cancel_req, running, ctl,
                   next_handle, members, hvars>>

\* an on_voice_state_update that leaves the session's timers as they are
on_voice_state_update_no_reset(g, joined) == vs

\* on_voice_state_update for a human who joins or leaves the bot's channel
on_voice_state_update(g, joined) ==
    LET s == voice_states[g] IN
    IF s = None \/ vs[s].voice = None THEN vs
    ELSE IF joined THEN [vs EXCEPT ![s] = _update_activity_timestamp(@)]
    ELSE [vs EXCEPT ![s].empty_detected = "none"]

\* the grace timer of the guild's registered session runs and has not elapsed
GraceRunning(g) ==
    /\ voice_states[g] # None
    /\ vs[voice_states[g]].voice # None
    /\ vs[voice_states[g]].empty_detected = "recent"

HumanJoins(g) ==
    /\ Idle /\ members[g] = 0
    /\ members' = [members EXCEPT ![g] = 1]
    /\ vs' = on_voice_state_update(g, TRUE)
    /\ rejoined' = [rejoined EXCEPT ![g] = @ \/ GraceRunning(g)]
    /\ UNCHANGED <<cfg, pvars, qstate, ret, qlog, voice_states, pc, cancel_req, running, ctl,
                   voice_client, connected, next_handle, playing, hvars>>

HumanLeaves(g) ==
    /\ Idle /\ members[g] = 1
    /\ members' = [members EXCEPT ![g] = 0]
    /\ vs' = on_voice_state_update(g, FALSE)
    /\ UNCHANGED <<qvars, pvars, voice_states, pc, cancel_req, running, ctl,
                   voice_client, connected, next_handle, playing, hvars>>

\* time passes: activity_timeout seconds since last_activity_time
IdleElapses(s) ==
    /\ Idle /\ pc[M(s)] = "sleep" /\ ~vs[s].idle_expired
    /\ vs' = [vs EXCEPT ![s].idle_expired = TRUE]
    /\ UNCHANGED <<qvars, pvars, voice_states, pc, cancel_req, running, ctl, evars, hvars>>

\* time passes: empty_channel_delay seconds since empty_channel_detected_time
EmptyElapses(s) ==
    /\ Idle /\ pc[M(s)] = "sleep" /\ vs[s].empty_detected = "recent"
    /\ vs' = [vs EXCEPT ![s].empty_detected = "expired"]
    /\ UNCHANGED <<qvars, pvars, voice_states, pc, cancel_req, running, ctl, evars, hvars>>

\* ------------------------------------------------------- queue persistence
\* The persistence file: absent, empty (opened for writing and nothing written),
\* or a JSON document that maps guilds to their entries.
NoDoc == <<>>
NoFile == [kind |-> "absent", doc |-> NoDoc]
EmptyFile == [kind |-> "empty", doc |-> NoDoc]
JsonFile(d) == [kind |-> "json", doc |-> d]

\* the metadata of a track in a snapshot; the title of the track with id n is n
NoSong == [title |-> 0, requester_id |-> "-", requester_name |-> "-"]
SongMeta(t) ==
    IF t = NoTrack THEN NoSong
    ELSE [title |-> t.id, requester_id |-> t.req, requester_name |-> t.req]

current_of(g) == IF voice_states[g] = None THEN NoTrack ELSE vs[voice_states[g]].current

\* MusicCog._save_queue_state, the dictionary it builds: an entry for each
\* registered guild with queued tracks or a current track; fresh stands for
\* now - saved_at <= max_age_hours
queue_data ==
    LET saved == {g \in Guilds : /\ voice_states[g] # None
                                 /\ \/ Len(get_queue(g)._queue) > 0
                                    \/ current_of(g) # NoTrack}
    IN  [g \in saved |->
            [guild_name |-> g,
             current_song |-> SongMeta(current_of(g)),
             queue |-> [i \in 1..Len(get_queue(g)._queue) |-> SongMeta(get_queue(g)._queue[i])],
             fresh |-> TRUE]]

NoSave == [pc |-> "idle", data |-> NoDoc, before |-> NoFile]

\* MusicCog._save_queue_state up to its first await: the data is built from
\* the sessions as they are now
SaveBegin ==
    /\ Idle
    /\ psave.pc = "idle"
    /\ prest.pc = "done"
    /\ psave' = [pc |-> "opening", data |-> queue_data, before |-> pfile]
    /\ UNCHANGED <<qvars, svars, evars, hvars, xvars, yvars, pfile, prest, chan, notices, proc>>

\* aiofiles.open(PERSISTENCE_FILE, 'w'): the file is opened in place and truncated
SaveOpened ==
    /\ psave.pc = "opening"
    /\ pfile' = EmptyFile
    /\ psave' = [psave EXCEPT !.pc = "opened"]
    /\ UNCHANGED <<qvars, svars, evars, hvars, xvars, yvars, prest, chan, notices, proc>>

\* f.write(json.dumps(queue_data)) and the close of the file
SaveWritten ==
    /\ psave.pc = "opened"
    /\ pfile' = JsonFile(psave.data)
    /\ psave' = NoSave
    /\ proc' = [proc EXCEPT !.dirty = TRUE]
    /\ UNCHANGED <<qvars, svars, evars, hvars, xvars, yvars, prest, chan, notices>>

\* StreamingJSONWriter.write_queue_data: the built-in open(file_path, 'w')
\* truncates the file; the object it returns is no asynchronous context
\* manager, so  async with  raises before the first write
write_queue_data == EmptyFile

\* QueueManager._save_queue_state, the task that remove_song creates: the
\* writer's exception is logged
SaveStreaming ==
    /\ Idle
    /\ psave.pc = "idle"
    /\ prest.pc = "done"
    /\ pfile' = write_queue_data
    /\ proc' = [proc EXCEPT !.dirty = TRUE]
    /\ UNCHANGED <<qvars, svars, evars, hvars, xvars, yvars, psave, prest, chan, notices>>

\* what a restore finds of a guild: "sendable" a system channel, or else a text
\* channel, where the bot may send; "forbidden" a system channel where the bot
\* may not send, next to a text channel where it may; "none" no guild or no
\* channel. It is drawn when the process starts and matters until its restore ends.
ChanKinds == {"sendable", "forbidden", "none"}
NoChan == [g \in Guilds |-> "sendable"]

NoRestore == [pc |-> "done", todo |-> <<>>]

\* the guilds of a document in the order of its keys
RECURSIVE InOrder(_)
InOrder(S) ==
    IF S = {} THEN <<>>
    ELSE LET g == CHOOSE x \in S : \A y \in S : x <= y
         IN  <<g>> \o InOrder(S \ {g})

\* MusicCog._restore_queues_on_startup up to the loop over the entries: a
\* missing file and an empty document return at once, a file that is no JSON
\* raises into the handler that logs
RestoreBegin ==
    /\ prest.pc = "pending"
    /\ IF pfile.kind = "json" /\ DOMAIN pfile.doc # {}
       THEN /\ prest' = [pc |-> "loop", todo |-> InOrder(DOMAIN pfile.doc)]
            /\ UNCHANGED chan
       ELSE /\ prest' = NoRestore
            /\ chan' = NoChan
    /\ UNCHANGED <<qvars, svars, evars, hvars, xvars, yvars, pfile, psave, notices, proc>>

\* the notice of an entry: none for an old entry, a missing guild or channel;
\* send() raises where the bot may not send, which is logged
notification(entry, found) ==
    IF entry.fresh /\ found = "sendable" THEN 1 ELSE 0

\* one entry of the loop
RestoreEntry ==
    /\ prest.pc = "loop"
    /\ prest.todo # <<>>
    /\ LET g == Head(prest.todo)
       IN  notices' = [notices EXCEPT ![g] = @ + notification(pfile.doc[g], chan[g])]
    /\ prest' = [prest EXCEPT !.todo = Tail(@)]
    /\ UNCHANGED <<qvars, svars, evars, hvars, xvars, yvars, pfile, psave, chan, proc>>

\* await aiofiles.open(PERSISTENCE_FILE, 'w').close(): the object that
\* aiofiles.open returns opens the file when it is awaited or entered, and it
\* is neither here; the expression raises into the handler that logs, and the
\* file stays as it was
clear_persistence_file == pfile

RestoreEnd ==
    /\ prest.pc = "loop"
    /\ prest.todo = <<>>
    /\ pfile' = clear_persistence_file
    /\ prest' = NoRestore
    /\ chan' = NoChan
    /\ proc' = [proc EXCEPT !.dirty = FALSE]
    /\ UNCHANGED <<qvars, svars, evars, hvars, xvars, yvars, psave, notices>>

\* QueueManager.restore_queues_on_startup: self.PERSISTENCE_FILE is no
\* attribute of the queue manager, the AttributeError is logged
RestoreStreaming ==
    /\ prest.pc = "pending"
    /\ prest' = NoRestore
    /\ chan' = NoChan
    /\ UNCHANGED <<qvars, svars, evars, hvars, xvars, yvars, pfile, psave, notices, proc>>

\* the snapshot gets older than max_age_hours, which takes longer than a save
\* or the loop of a restore
SnapshotAges ==
    /\ psave.pc = "idle"
    /\ prest.pc # "loop"
    /\ pfile.kind = "json"
    /\ \E g \in DOMAIN pfile.doc : pfile.doc[g].fresh
    /\ pfile' = JsonFile([g \in DOMAIN pfile.doc |-> [pfile.doc[g] EXCEPT !.fresh = FALSE]])
    /\ UNCHANGED <<qvars, svars, evars, hvars, xvars, yvars, psave, prest, chan, notices, proc>>

\* the process stops at any point and is started again: what it held in memory
\* is gone and the histories start anew, the file stays, and the restore of the
\* new process is due
CrashRestart ==
    /\ guild_queues' = [g \in Guilds |-> NewQueue]
    /\ voice_states' = [g \in Guilds |-> None]
    /\ vs' = [s \in Sessions |-> BlankVS]
    /\ pc' = [T \in TaskIds |-> IF T[1] = "C" THEN "idle" ELSE "none"]
    /\ cancel_req' = [T \in TaskIds |-> FALSE]
    /\ running' = NoTask
    /\ ctl' = [c \in Callers |-> NoCmd]
    /\ voice_client' = [g \in Guilds |-> None]
    /\ connected' = [g \in Guilds |-> FALSE]
    /\ playing' = [g \in Guilds |-> NoPlay]
    /\ psave' = NoSave
    /\ prest' = [pc |-> "pending", todo |-> <<>>]
    /\ chan' \in [Guilds -> ChanKinds]
    /\ notices' = [g \in Guilds |-> 0]
    /\ started' = [g \in Guilds |-> <<>>]
    /\ cleaned' = [t \in TrackIds |-> 0]
    /\ UNCHANGED <<cfg, obs, next_id, next_handle, members, pfile, proc, xvars, yvars>>

\* ------------------------------------------------------- media extraction
Queries == {"song", "SONG ", "mix"}
CacheKeys == {"song", "mix"}

\* PerformanceCache._generate_cache_key: the query in lower case and stripped
\* (the hash of it is one to one)
_generate_cache_key(query) == IF query = "SONG " THEN "song" ELSE query

\* the age of an entry: "fresh" up to CACHE_STALE_HOURS, "stale" up to
\* CACHE_MAX_AGE_HOURS, "expired" afterwards; "none" is no entry
NoEntry == [age |-> "none", hit_count |-> 0]
NewEntry == [age |-> "fresh", hit_count |-> 0]

is_expired(entry) == entry.age = "expired"
is_stale(entry) == entry.age \in {"stale", "expired"}

\* (audio_url, title, platform) of a query
Result(query) == <<"url", _generate_cache_key(query), "YouTube">>

NoExtract == [query |-> "-", kind |-> "none", value |-> <<>>, exc |-> "none", extraction |-> "none"]
Returned(query, o, v) ==
    [query |-> query, kind |-> "return", value |-> v, exc |-> "none", extraction |-> o]
Raised(query, o, e) ==
    [query |-> query, kind |-> "raise", value |-> <<>>, exc |-> e, extraction |-> o]

\* PerformanceCache.get: "miss" for None, "hit", or "raise": refresh_queue is
\* no attribute of the cache, so queuing the refresh of a stale entry raises
\* AttributeError
get_outcome(query) ==
    LET entry == cache[_generate_cache_key(query)]
    IN  IF entry.age = "none" THEN "miss"
        ELSE IF is_expired(entry) THEN "miss"
        ELSE IF is_stale(entry) THEN "raise"
        ELSE "hit"

\* the cache after get: an expired entry is deleted, another one is counted
get_cache(query) ==
    LET k == _generate_cache_key(query)
    IN  IF cache[k].age = "none" THEN cache
        ELSE IF is_expired(cache[k]) THEN [cache EXCEPT ![k] = NoEntry]
        ELSE [cache EXCEPT ![k].hit_count = @ + 1]

\* PerformanceCache.set
set(c, query) == [c EXCEPT ![_generate_cache_key(query)] = NewEntry]

\* what the extraction of a call does: it succeeds, it takes longer than the
\* timeout, or yt-dlp raises
Extractions == {"ok", "timeout", "error"}

\* MediaExtractor.process_url: the cache is consulted outside the try block,
\* the extraction runs inside it under the timeout
process_url_result(query, use_cache, o) ==
    IF use_cache /\ get_outcome(query) = "raise" THEN Raised(query, o, "AttributeError")
    ELSE IF use_cache /\ get_outcome(query) = "hit" THEN Returned(query, o, Result(query))
    ELSE IF o = "ok" THEN Returned(query, o, Result(query))
    ELSE Raised(query, o, "ValueError")

process_url_cache(query, use_cache, o) ==
    IF ~use_cache THEN cache
    ELSE IF get_outcome(query) = "miss" /\ o = "ok" THEN set(get_cache(query), query)
    ELSE get_cache(query)

ProcessUrl(query, use_cache, o) ==
    /\ use_cache => cache[_generate_cache_key(query)].hit_count < MaxHits
    /\ extracted' = process_url_result(query, use_cache, o)
    /\ cache' = process_url_cache(query, use_cache, o)
    /\ UNCHANGED <<qvars, svars, evars, hvars, fvars, yvars, ix>>

\* time passes: a fresh entry gets stale, a stale one expires
CacheAges(k) ==
    /\ cache[k].age \in {"fresh", "stale"}
    /\ cache' = [cache EXCEPT ![k].age = IF @ = "fresh" THEN "stale" ELSE "expired"]
    /\ UNCHANGED <<qvars, svars, evars, hvars, fvars, yvars, extracted, ix>>

\* ---------------------------------------------------------- ErrorHandler
Interactions == 1..2
ErrorTypes == {"command", "audio", "network", "system", "user_input", "permission"}

\* an interaction: response is "none" until the handler answers, "deferred"
\* after response.defer(), "sent" after response.send_message(); handled is
\* the type of the error given to handle_error, errors_sent the error messages
\* that reached the user
NewInteraction == [response |-> "none", handled |-> "none", errors_sent |-> 0]

\* interaction.response.is_done()
is_done(i) == ix[i].response # "none"

\* the handler defers its response, as play does on entry
Defer(i) ==
    /\ ix[i].response = "none"
    /\ ix[i].handled = "none"
    /\ ix' = [ix EXCEPT ![i].response = "deferred"]
    /\ UNCHANGED <<qvars, svars, evars, hvars, fvars, yvars, cache, extracted>>

\* the handler answers with response.send_message
SendMessage(i) ==
    /\ ix[i].response = "none"
    /\ ix[i].handled = "none"
    /\ ix' = [ix EXCEPT ![i].response = "sent"]
    /\ UNCHANGED <<qvars, svars, evars, hvars, fvars, yvars, cache, extracted>>

\* ErrorHandler.handle_error with the interaction: the error is logged; the
\* message goes out through interaction.followup only if the response is not
\* done, and a failure of that send is logged
handle_error(i, error_type, delivered) ==
    [ix[i] EXCEPT !.handled = error_type,
                  !.errors_sent = IF ~is_done(i) /\ delivered THEN @ + 1 ELSE @]

\* a handler catches a failure and reports it; delivered is whether the
\* followup send, if there is one, reaches the user
HandleError(i, error_type, delivered) ==
    /\ ix[i].handled = "none"
    /\ ix' = [ix EXCEPT ![i] = handle_error(i, error_type, delivered)]
    /\ UNCHANGED <<qvars, svars, evars, hvars, fvars, yvars, cache, extracted>>

\* the interaction is over and the next one arrives
NextInteraction(i) ==
    /\ ix[i].handled # "none"
    /\ ix' = [ix EXCEPT ![i] = NewInteraction]
    /\ UNCHANGED <<qvars, svars, evars, hvars, fvars, yvars, cache, extracted>>

\* ------------------------------------------- extract_error_details
\* the exception classes a handler can catch, each with the classes it is an
\* instance of (itself and its bases, below Exception)
ExceptionClasses ==
    {"Forbidden", "NotFound", "DiscordServerError", "HTTPException",
     "DownloadError", "ClientError", "TimeoutError", "ValueError",
     "PermissionError", "OSError", "RuntimeError"}

Mro(e) ==
    CASE e = "Forbidden" -> {"Forbidden", "HTTPException", "DiscordException"}
      [] e = "NotFound" -> {"NotFound", "HTTPException", "DiscordException"}
      [] e = "DiscordServerError" -> {"DiscordServerError", "HTTPException", "DiscordException"}
      [] e = "HTTPException" -> {"HTTPException", "DiscordException"}
      [] e = "DownloadError" -> {"DownloadError", "YoutubeDLError"}
      [] e = "PermissionError" -> {"PermissionError", "OSError"}
      [] OTHER -> {e}

isinstance(e, classes) == Mro(e) \cap classes # {}

\* 'yt_dlp' in str(error.__module__)
in_yt_dlp(e) == e = "DownloadError"

\* what str(error) holds of the phrases the function looks for
Texts == {"plain", "age-restricted", "private", "not available"}

\* extract_error_details: the (category, message) of the first test that holds
extract_error_details(e, text) ==
    IF isinstance(e, {"HTTPException"})
    THEN [category |-> "network", message |-> "discord_api"]
    ELSE IF isinstance(e, {"Forbidden"})
    THEN [category |-> "permission", message |-> "lacks_permissions"]
    ELSE IF isinstance(e, {"NotFound"})
    THEN [category |-> "command", message |-> "not_found"]
    ELSE IF in_yt_dlp(e)
    THEN [category |-> "audio",
          message |-> IF text = "age-restricted" THEN "age_restricted"
                      ELSE IF text = "private" THEN "private"
                      ELSE IF text = "not available" THEN "not_available"
                      ELSE "extraction_failed"]
    ELSE IF isinstance(e, {"ClientError", "TimeoutError"})
    THEN [category |-> "network", message |-> "network"]
    ELSE IF isinstance(e, {"ValueError"})
    THEN [category |-> "user_input", message |-> "str"]
    ELSE IF isinstance(e, {"PermissionError"})
    THEN [category |-> "permission", message |-> "permission_denied"]
    ELSE IF isinstance(e, {"OSError"})
    THEN [category |-> "system", message |-> "io"]
    ELSE [category |-> "system", message |-> "unexpected"]

\* handle_command_error: the error is classified and reported with its category
HandleCommandError(i, e, text, delivered) ==
    LET d == extract_error_details(e, text) IN
    /\ ix[i].handled = "none"
    /\ classified' = [error |-> e, text |-> text,
                      category |-> d.category, message |-> d.message]
    /\ ix' = [ix EXCEPT ![i] = handle_error(i, d.category, delivered)]
    /\ UNCHANGED <<qvars, svars, evars, hvars, fvars, cache, extracted, pl, boot>>

XInitState ==
    /\ cache = [k \in CacheKeys |-> NoEntry]
    /\ extracted = NoExtract
    /\ ix = [i \in Interactions |-> NewInteraction]

\* ------------------------------------------------- playlist extraction
Entries == 1..MaxEntries

\* a call of _process_playlist_entries_parallel: the extraction of each entry
\* is "new" until it holds the semaphore, "running" while it extracts, "done"
\* when its result is there and "collected" when the loop over as_completed
\* has taken it; result is "song" for a tuple and "none" for None
NoPlaylist ==
    [n |-> 0, st |-> [i \in Entries |-> "-"], result |-> [i \in Entries |-> "-"],
     songs |-> <<>>, failed_extractions |-> 0, returned |-> FALSE]

NewPlaylist(n) ==
    [NoPlaylist EXCEPT !.n = n, !.st = [i \in Entries |-> IF i <= n THEN "new" ELSE "-"]]

InFlight == {i \in Entries : pl.st[i] = "running"}

\* the call: songs = [], failed_extractions = 0, the semaphore, one coroutine
\* for each entry
PlaylistCall(n) ==
    /\ pl.n = 0 \/ pl.returned
    /\ pl' = NewPlaylist(n)
    /\ UNCHANGED <<qvars, svars, evars, hvars, fvars, xvars, classified, boot>>

\* a semaphore that lets every coroutine in
acquire_unbounded(i) == TRUE

\* async with semaphore: the coroutine goes on while the semaphore has a
\* permit left
acquire(i) == Cardinality(InFlight) < MAX_CONCURRENT_EXTRACTIONS

Acquire(i) ==
    /\ pl.st[i] = "new"
    /\ acquire(i)
    /\ pl' = [pl EXCEPT !.st[i] = "running"]
    /\ UNCHANGED <<qvars, svars, evars, hvars, fvars, xvars, classified, boot>>

\* process_entry_with_semaphore ends and releases the semaphore: with the
\* song, or with None for an empty entry, an extraction that returned None
\* or one that raised
Extracted(i, r) ==
    /\ pl.st[i] = "running"
    /\ pl' = [pl EXCEPT !.st[i] = "done", !.result[i] = r]
    /\ UNCHANGED <<qvars, svars, evars, hvars, fvars, xvars, classified, boot>>

\* a loop that does not count the entries without a song
collect_uncounted(i) ==
    IF pl.result[i] = "song"
    THEN [pl EXCEPT !.st[i] = "collected", !.songs = Append(@, i)]
    ELSE [pl EXCEPT !.st[i] = "collected"]

\* one turn of the loop over asyncio.as_completed
collect(i) ==
    IF pl.result[i] = "song"
    THEN [pl EXCEPT !.st[i] = "collected", !.songs = Append(@, i)]
    ELSE [pl EXCEPT !.st[i] = "collected", !.failed_extractions = @ + 1]

AsCompleted(i) ==
    /\ pl.st[i] = "done"
    /\ pl' = collect(i)
    /\ UNCHANGED <<qvars, svars, evars, hvars, fvars, xvars, classified, boot>>

\* return songs, failed_extractions
PlaylistReturn ==
    /\ pl.n > 0
    /\ ~pl.returned
    /\ \A i \in 1..pl.n : pl.st[i] = "collected"
    /\ pl' = [pl EXCEPT !.returned = TRUE]
    /\ UNCHANGED <<qvars, svars, evars, hvars, fvars, xvars, classified, boot>>

NoClass == [error |-> "-", text |-> "-", category |-> "-", message |-> "-"]
\* ------------------------------------------------------------ main()
\* the retry loop of main(): pc is "run" while bot.run is under way, "sleep"
\* during time.sleep(wait_time), "returned" after a return; waits holds the
\* wait_time of every sleep and log how each bot.run call ended
NoBoot == [pc |-> "run", retry_count |-> 0, waits |-> <<>>, log |-> <<>>]

Min(a, b) == IF a <= b THEN a ELSE b

CleanRuns == Cardinality({k \in 1..Len(boot.log) : boot.log[k] = "ok"})

\* bot.run returns: the while loop calls it again
BotRunReturns ==
    /\ boot.pc = "run"
    /\ CleanRuns < MaxCleanRuns
    /\ boot' = [boot EXCEPT !.log = Append(@, "ok")]
    /\ UNCHANGED <<qvars, svars, evars, hvars, fvars, xvars, pl, classified>>

\* wait_time = min(retry_count * 5, 60)
wait_time(retry_count) == Min(retry_count * 5, 60)

\* bot.run raises: LoginFailure ends main, any other Exception is counted and
\* followed by a sleep
BotRunRaises(exc) ==
    /\ boot.pc = "run"
    /\ IF exc = "LoginFailure"
       THEN boot' = [boot EXCEPT !.pc = "returned", !.log = Append(@, exc)]
       ELSE boot' = [boot EXCEPT !.pc = "sleep",
                                 !.retry_count = @ + 1,
                                 !.waits = Append(@, wait_time(boot.retry_count + 1)),
                                 !.log = Append(@, exc)]
    /\ UNCHANGED <<qvars, svars, evars, hvars, fvars, xvars, pl, classified>>

\* a test that never gives up
gives_up_never(retry_count) == FALSE

\* if retry_count >= 5: return
gives_up(retry_count) == retry_count >= 5

\* the sleep is over: main returns or goes round the loop
SleepDone ==
    /\ boot.pc = "sleep"
    /\ boot' = [boot EXCEPT !.pc = IF gives_up(boot.retry_count) THEN "returned" ELSE "run"]
    /\ UNCHANGED <<qvars, svars, evars, hvars, fvars, xvars, pl, classified>>

YInitState ==
    /\ pl = NoPlaylist
    /\ classified = NoClass
    /\ boot = NoBoot

PInitState ==
    /\ pfile = NoFile
    /\ psave = NoSave
    /\ prest = NoRestore
    /\ chan = NoChan
    /\ notices = [g \in Guilds |-> 0]
    /\ proc = [dirty |-> FALSE]
    /\ XInitState
    /\ YInitState

\* ------------------------------------------------------- specifications
QInitState ==
    /\ guild_queues = [g \in Guilds |-> NewQueue]
    /\ next_id = 1

SInitState ==
    /\ voice_states = [g \in Guilds |-> None]
    /\ vs = [s \in Sessions |-> BlankVS]
    /\ pc = [T \in TaskIds |-> IF T[1] = "C" THEN "idle" ELSE "none"]
    /\ cancel_req = [T \in TaskIds |-> FALSE]
    /\ running = NoTask
    /\ ctl = [c \in Callers |-> NoCmd]
    /\ voice_client = [g \in Guilds |-> None]
    /\ connected = [g \in Guilds |-> FALSE]
    /\ playing = [g \in Guilds |-> NoPlay]
    /\ members = [g \in Guilds |-> 1]
    /\ started = [g \in Guilds |-> <<>>]
    /\ cleaned = [t \in TrackIds |-> 0]
    /\ ret = NoRet
    /\ rejoined = [g \in Guilds |-> FALSE]
    /\ PInitState

\* the queue manager alone, for every configuration of the two limits
QInit ==
    /\ max_queue_size \in 1..MaxCfg
    /\ user_queue_limit \in 1..MaxCfg
    /\ faults = FALSE
    /\ next_handle = 1
    /\ qlog = [g \in Guilds |-> NoLog]
    /\ QInitState
    /\ SInitState

QNext ==
    \/ \E g \in Guilds, u \in Users : AddToQueue(g, u)
    \/ \E g \in Guilds, p \in Positions : RemoveSong(g, p)
    \/ \E g \in Guilds : ClearQueue(g)
    \/ \E g \in Guilds : GetNextSong(g)
    \/ \E g \in Guilds : PeekQueue(g)

SpecQueue == QInit /\ [][QNext]_vars

\* add_to_queue and remove_song alone, with limits that never refuse a track and
\* a log of the tracks that went in and out
QInitRoomy ==
    /\ max_queue_size = MaxAdds
    /\ user_queue_limit = MaxAdds
    /\ faults = FALSE
    /\ next_handle = 1
    /\ qlog = [g \in Guilds |-> [NoLog EXCEPT !.kept = TRUE]]
    /\ QInitState
    /\ SInitState

NextAddRemove ==
    \/ \E g \in Guilds, u \in Users : AddToQueue(g, u)
    \/ \E g \in Guilds, p \in Positions : RemoveSong(g, p)

SpecAddRemove == QInitRoomy /\ [][NextAddRemove]_vars

\* the bot: commands, sessions and their tasks, the voice layer
Limits ==
    /\ max_queue_size = MaxCfg
    /\ user_queue_limit = MaxCfg
    /\ qlog = [g \in Guilds |-> NoLog]

\* runs in which the calls to the outside may fail
Init == Limits /\ faults = TRUE /\ next_handle = 1 /\ QInitState /\ SInitState

\* runs in which they all succeed
InitNoFaults == Limits /\ faults = FALSE /\ next_handle = 1 /\ QInitState /\ SInitState

\* the queue manager with its reading calls between adds and removals
NextRead ==
    \/ \E g \in Guilds, u \in Users : AddToQueue(g, u)
    \/ \E g \in Guilds, p \in Positions : RemoveSong(g, p)
    \/ \E g \in Guilds : Peek(g)
    \/ \E g \in Guilds : GetQueueInfo(g)
    \/ \E g \in Guilds : IsQueueEmpty(g)
    \/ \E g \in Guilds : GetQueueLength(g)

SpecRead == InitNoFaults /\ [][NextRead]_vars

\* runs in which they all succeed and the bot joins a voice channel once
InitOneConnection ==
    Limits /\ faults = FALSE /\ next_handle = MaxHandles /\ QInitState /\ SInitState

LoopStep ==
    \/ \E s \in Sessions : LStart(s)
    \/ \E s \in Sessions : LTop(s)
    \/ \E s \in Sessions : LDelMsgDone(s)
    \/ \E s \in Sessions : LWaitQueueWake(s)
    \/ \E s \in Sessions : LAnnounceDone(s)
    \/ \E s \in Sessions : LPlay(s)
    \/ \E s \in Sessions : LWaitNextWake(s)
    \/ \E s \in Sessions : LErrNotifyDone(s)
    \/ \E s \in Sessions : LCancelled(s)
    \/ \E s \in Sessions : LFinally(s)
    \/ \E s \in Sessions : LAwaitMWake(s)

MonitorStep ==
    \/ \E s \in Sessions : MStart(s)
    \/ \E s \in Sessions : MCheck(s)
    \/ \E s \in Sessions : MCancelled(s)

\* stop() as run by the handlers in cs
StopStep(cs) ==
    \/ \E c \in cs : Stop_A(C(c))
    \/ \E c \in cs : Stop_AwaitLWake(C(c))
    \/ \E c \in cs : Stop_B(C(c))
    \/ \E c \in cs : Stop_AwaitMWake(C(c))
    \/ \E c \in cs : Stop_C(C(c))
    \/ \E c \in cs : Stop_DiscDone(C(c))
    \/ \E c \in cs : Stop_D(C(c))
    \/ \E c \in cs : Stop_DelDone(C(c))

\* stop_all_voice_states and the stop() calls it gathers
StopAllStep ==
    \/ StopAllBegin
    \/ \E s \in Sessions : GStart(s)
    \/ \E s \in Sessions : Stop_A(G(s))
    \/ \E s \in Sessions : Stop_AwaitLWake(G(s))
    \/ \E s \in Sessions : Stop_B(G(s))
    \/ \E s \in Sessions : Stop_AwaitMWake(G(s))
    \/ \E s \in Sessions : Stop_C(G(s))
    \/ \E s \in Sessions : Stop_DiscDone(G(s))
    \/ \E s \in Sessions : Stop_D(G(s))
    \/ \E s \in Sessions : Stop_DelDone(G(s))
    \/ \E s \in Sessions : GStopReturn(s)
    \/ StopAllEnd

PlayCmd(cs) ==
    \/ \E c \in cs, g \in SessGuilds, u \in SessUsers : PlayBegin(c, g, u)
    \/ \E c \in cs : PlayCtx(c)

LeaveCmd(cs) ==
    \/ \E c \in cs, g \in SessGuilds : CmdBegin(c, g, "leave")
    \/ \E c \in cs : LeaveCtx(c)
    \/ \E c \in cs : LeaveStopReturn(c)
    \/ StopStep(cs)

SkipCmd(cs) ==
    \/ \E c \in cs, g \in SessGuilds : CmdBegin(c, g, "skip")
    \/ \E c \in cs : SkipCtx(c)

QueueCmd ==
    \/ \E g \in SessGuilds, p \in 1..MaxCfg : RemoveCmd(g, p)
    \/ \E g \in SessGuilds : ClearQueue(g)

Memory == \E s \in Sessions : Collect(s)

Presence ==
    \/ \E g \in SessGuilds : HumanJoins(g)
    \/ \E g \in SessGuilds : HumanLeaves(g)

Clock ==
    \/ \E s \in Sessions : IdleElapses(s)
    \/ \E s \in Sessions : EmptyElapses(s)

\* one handler at a time: every command, tracks that end, no timeout elapses
Next ==
    \/ LoopStep \/ MonitorStep \/ Memory
    \/ PlayCmd({1}) \/ SkipCmd({1}) \/ QueueCmd \/ LeaveCmd({1})
    \/ \E g \in SessGuilds : TrackFinished(g)

Spec == Init /\ [][Next]_vars

\* concurrent handlers: play and leave issued at any time by two handlers
NextLeave ==
    \/ LoopStep \/ MonitorStep \/ Memory
    \/ PlayCmd({1}) \/ LeaveCmd(Callers)
    \/ \E g \in SessGuilds : TrackFinished(g)

SpecLeave == InitOneConnection /\ [][NextLeave]_vars

\* the same with reconnections: sessions that follow a torn-down session
SpecRejoin == InitNoFaults /\ [][NextLeave]_vars

\* the monitor's timeouts: members come and go, time passes, play is the only command
NextMonitor ==
    \/ LoopStep \/ MonitorStep
    \/ PlayCmd({1})
    \/ \E s \in Sessions : Stop_A(M(s))
    \/ \E g \in SessGuilds : TrackFinished(g)
    \/ Presence \/ Clock

SpecMonitor == Init /\ [][NextMonitor]_vars

\* shutdown: stop_all_voice_states is called once, at any time; before it the
\* bot joins a voice channel once, the humans may leave it and the grace delay pass
InitShutdown ==
    Limits /\ faults = TRUE /\ next_handle = MaxHandles /\ QInitState /\ SInitState

NextStopAll ==
    \/ LoopStep \/ MonitorStep
    \/ PlayCmd({1})
    \/ \E s \in Sessions : Stop_A(M(s))
    \/ \E g \in SessGuilds : TrackFinished(g)
    \/ \E g \in SessGuilds : HumanLeaves(g)
    \/ \E s \in Sessions : EmptyElapses(s)
    \/ StopAllStep

SpecStopAll == InitShutdown /\ [][NextStopAll]_vars

\* the queue is cleared at any time while tracks are queued and played
NextClear ==
    \/ LoopStep \/ MonitorStep \/ Memory
    \/ PlayCmd({1}) \/ LeaveCmd({1})
    \/ \E g \in SessGuilds : TrackFinished(g)
    \/ \E g \in SessGuilds : Clear(g)

SpecClear == Init /\ [][NextClear]_vars

\* leave at any time, also after the humans have left the channel and the
\* monitor has begun its own stop()
NextLeaveIdle ==
    \/ LoopStep \/ MonitorStep
    \/ PlayCmd({1}) \/ LeaveCmd({1})
    \/ \E s \in Sessions : Stop_A(M(s))
    \/ \E g \in SessGuilds : TrackFinished(g)
    \/ \E g \in SessGuilds : HumanLeaves(g)
    \/ \E s \in Sessions : EmptyElapses(s)

SpecLeaveIdle == InitShutdown /\ [][NextLeaveIdle]_vars

\* two guilds: both play, guild 1 also receives the other commands; calls to the
\* outside may fail (a loop can end with an exception); no timeout elapses
NextGuilds ==
    \/ LoopStep
    \/ \E s \in Sessions : MCancelled(s)
    \/ \E g \in Guilds, u \in SessUsers : PlayBegin(1, g, u)
    \/ PlayCtx(1)
    \/ LeaveCmd({1}) \/ SkipCmd({1}) \/ QueueCmd

SpecGuilds == Init /\ [][NextGuilds]_vars

\* two guilds play while their queues are saved, the process is stopped and
\* started again, and the snapshot is restored; every call to the outside
\* succeeds and no track ends
NextPersist ==
    \/ \E s \in Sessions : LStart(s)
    \/ \E s \in Sessions : LTop(s)
    \/ \E s \in Sessions : LAnnounceDone(s)
    \/ \E s \in Sessions : LPlay(s)
    \/ \E g \in Guilds, u \in SessUsers : PlayBegin(1, g, u)
    \/ PlayCtx(1)
    \/ SaveBegin \/ SaveOpened \/ SaveWritten
    \/ SaveStreaming
    \/ RestoreBegin \/ RestoreEntry \/ RestoreEnd
    \/ RestoreStreaming
    \/ SnapshotAges
    \/ CrashRestart

SpecPersist == InitNoFaults /\ [][NextPersist]_vars

\* queries are resolved while the cache entries age
NextExtract ==
    \/ \E query \in Queries, use_cache \in BOOLEAN, o \in Extractions :
          ProcessUrl(query, use_cache, o)
    \/ \E k \in CacheKeys : CacheAges(k)

SpecExtract == InitNoFaults /\ [][NextExtract]_vars

\* handlers answer or defer, fail, and report the failure with the interaction
NextErrors ==
    \/ \E i \in Interactions : Defer(i)
    \/ \E i \in Interactions : SendMessage(i)
    \/ \E i \in Interactions, error_type \in ErrorTypes, delivered \in BOOLEAN :
          HandleError(i, error_type, delivered)
    \/ \E i \in Interactions : NextInteraction(i)

SpecErrors == InitNoFaults /\ [][NextErrors]_vars

\* handlers answer or defer, fail with any exception, and report it through
\* handle_command_error
NextClassify ==
    \/ \E i \in Interactions : Defer(i)
    \/ \E i \in Interactions : SendMessage(i)
    \/ \E i \in Interactions, e \in ExceptionClasses, text \in Texts, delivered \in BOOLEAN :
          HandleCommandError(i, e, text, delivered)
    \/ \E i \in Interactions : NextInteraction(i)

SpecClassify == InitNoFaults /\ [][NextClassify]_vars

\* main() alone.  Fairness: a sleep ends, and a bot.run call that is under way
\* ends with an exception sooner or later
NextBoot ==
    \/ BotRunReturns
    \/ \E exc \in {"LoginFailure", "Exception"} : BotRunRaises(exc)
    \/ SleepDone

SpecBoot ==
    /\ InitNoFaults /\ [][NextBoot]_vars
    /\ WF_vars(BotRunRaises("Exception")) /\ WF_vars(SleepDone)

\* playlists of every length are processed, any entry may fail
NextPlaylist ==
    \/ \E n \in Entries : PlaylistCall(n)
    \/ \E i \in Entries : Acquire(i)
    \/ \E i \in Entries, r \in {"song", "none"} : Extracted(i, r)
    \/ \E i \in Entries : AsCompleted(i)
    \/ PlaylistReturn

SpecPlaylist == InitNoFaults /\ [][NextPlaylist]_vars

\* the voice connection can be lost at any time; play and leave, one handler
NextVoice ==
    \/ LoopStep \/ MonitorStep \/ Memory
    \/ PlayCmd({1}) \/ LeaveCmd({1})
    \/ \E g \in SessGuilds : TrackFinished(g)
    \/ \E g \in SessGuilds : ExternalDisconnect(g)

SpecVoice == InitNoFaults /\ [][NextVoice]_vars

\* ================================================================ claims
\* C1: in every reachable state of every guild's queue, whatever add_to_queue,
\* get_next_song, remove_song and clear_queue calls came before, the queue holds at
\* most max_queue_size tracks and no requester has more than user_queue_limit in it.
C1_QueueWithinLimits ==
    \A g \in Guilds :
        /\ QLen(get_queue(g)) <= max_queue_size
        /\ Len(get_queue(g)._queue) <= max_queue_size
        /\ \A u \in Users : user_songs(get_queue(g), u) <= user_queue_limit

\* a queue that was filled, lost a track and was filled again: it is at the size
\* limit and one requester is at the personal limit
C1_Witness ==
    \E g \in Guilds, u \in Users :
        /\ QLen(get_queue(g)) = max_queue_size
        /\ user_songs(get_queue(g), u) = user_queue_limit
        /\ next_id > max_queue_size + 1

C3_QueuedTrackHasRunnableLoop ==
    \A g \in SessGuilds :
        (/\ ~is_queue_empty(g)
         /\ \A c \in Callers : pc[C(c)] = "idle")
        => /\ voice_states[g] # None
           /\ ~LDone(voice_states[g])
           /\ ~Cycle(voice_states[g])

\* C4: when the announcement of a dequeued track or voice.play raises, the loop
\* does not end (only a cancellation takes it to its finally block), the failing
\* track is cleaned up and dropped without being started, and the loop is back at
\* the head of its while loop, holding the event loop, to take the next track.
C4_FailedTrackSkippedLoopContinues ==
    [][\A s \in Sessions :
        /\ (pc[L(s)] \in {"announce", "play", "err_notify"} /\ ~cancel_req[L(s)])
           => pc'[L(s)] \notin {"finally", "done", "cancelled"}
        /\ (pc[L(s)] \in {"announce", "err_notify"} /\ pc'[L(s)] = "top")
           => /\ vs'[s].current = NoTrack
              /\ cleaned'[vs[s].current.id] = cleaned[vs[s].current.id] + 1
              /\ started' = started
              /\ running' = L(s)
              /\ guild_queues' = guild_queues]_vars

\* track 1 was dequeued by the only session that ever had a voice connection, failed
\* and was cleaned up without being started; the same session now plays track 2
C4_Witness ==
    \E s \in Sessions, g \in Guilds :
        /\ playing[g] = [s |-> s, t |-> 2]
        /\ started[g] = <<2>>
        /\ cleaned[1] >= 1
        /\ next_handle = 2
        /\ ~vs[s].stop_started /\ ~LDone(s)

\* C5 (as the claim states it): every guild has at most one playback-loop task and
\* at most one monitor task that has not finished.
LiveLoops(g) == {s \in Sessions : Allocated(s) /\ vs[s].guild = g /\ ~LDone(s)}
LiveMonitors(g) == {s \in Sessions : Allocated(s) /\ vs[s].guild = g /\ ~MDone(s)}
C5_OneLiveLoopAndMonitorPerGuild ==
    \A g \in Guilds : Cardinality(LiveLoops(g)) <= 1 /\ Cardinality(LiveMonitors(g)) <= 1

\* C6 (as the claim states it): whenever a handler's get_voice_state call returns a
\* session that already exists, stop() has not been started on that session.
C6_ReturnedSessionNotStopped ==
    [][\A c \in Callers :
        (pc[C(c)] = "ctx" /\ pc'[C(c)] # "ctx" /\ ~get_voice_state(ctl[c].guild).creates)
        => ~vs[get_voice_state(ctl[c].guild).state].stop_started]_vars

\* C7 (as the claim states it): on no session is voice.disconnect() called more
\* than once, and when a stop() call returns the session is terminated.
C7_StopOnceAndTerminated ==
    \A s \in Sessions :
        /\ vs[s].disconnect_calls <= 1
        /\ \A c \in Callers :
             (pc[C(c)] = "stop_end" /\ ctl[c].target = s)
             => LDone(s) /\ MDone(s) /\ vs[s].voice = None /\ vs[s].current = NoTrack

\* C8 (as the claim states it): a stop() called by the monitor never leaves the
\* monitor waiting for the loop while the loop waits for the monitor.
C8_MonitorStopNoCircularWait ==
    \A s \in Sessions : ~Cycle(s)

\* C9 (as the claim states it): once the playback-loop task has ended and no stop()
\* is at work on the session, the whole cleanup has happened: message deleted,
\* nothing playing, voice disconnected and cleared, monitor ended, current cleared.
StopRunning(s) ==
    \E T \in TaskIds :
        /\ pc[T] \in {"stop_A", "stop_awaitL", "stop_B", "stop_awaitM",
                      "stop_C", "stop_disc", "stop_D", "stop_delmsg"}
        /\ Target(T) = s
C9_EndedLoopCleanedUp ==
    \A s \in Sessions :
        (pc[L(s)] = "done" /\ ~StopRunning(s))
        => /\ ~vs[s].current_message
           /\ ~is_playing(s)
           /\ vs[s].voice = None
           /\ MDone(s)
           /\ vs[s].current = NoTrack

\* C10 (as the claim states it): whenever the inactivity timeout has elapsed, the
\* guild's queue is empty and nothing is playing, the monitor's periodic check,
\* for which it is waiting, calls stop().
C10_IdleCheckTearsDown ==
    \A s \in Sessions :
        (/\ pc[M(s)] = "sleep" /\ pc[L(s)] = "wait_queue"
         /\ IsConnected(s)
         /\ vs[s].idle_expired
         /\ is_queue_empty(vs[s].guild)
         /\ playing[vs[s].guild].s = None)
        => TearsDown(s)

\* C11 (as the claim states it): whenever no human has been in the connected
\* channel for the whole grace delay, the monitor's periodic check, for which it is
\* waiting, calls stop(), whether or not a track is playing or queued.
C11_EmptyCheckTearsDown ==
    \A s \in Sessions :
        (/\ pc[M(s)] = "sleep" /\ pc[L(s)] \in {"wait_queue", "wait_next"}
         /\ IsConnected(s)
         /\ members[vs[s].guild] = 0
         /\ vs[s].empty_detected = "expired")
        => TearsDown(s)

\* C12: a human who comes back to the channel resets the grace timer, so the timer
\* of a session with a voice handle runs only while no human is in the channel; and
\* a periodic check calls stop() only with no human in the channel and, unless the
\* inactivity timeout has elapsed, only after a whole grace delay without a reset.
C12_RejoinResetsGrace ==
    [][\A s \in Sessions :
        /\ (vs[s].voice # None /\ voice_states[vs[s].guild] = s
                /\ members'[vs[s].guild] > members[vs[s].guild])
           => vs'[s].empty_detected = "none"
        /\ (vs'[s].voice # None /\ vs'[s].empty_detected # "none")
           => members'[vs'[s].guild] = 0
        /\ (pc[M(s)] = "sleep" /\ pc'[M(s)] = "stop_A")
           => /\ members[vs[s].guild] = 0
              /\ vs[s].idle_expired \/ vs[s].empty_detected = "expired"]_vars

\* a human came back during the grace period of the guild's session and is in the
\* channel; the session has not been stopped and its monitor goes on checking
C12_Witness ==
    \E s \in Sessions :
        /\ Allocated(s) /\ voice_states[vs[s].guild] = s
        /\ rejoined[vs[s].guild] /\ members[vs[s].guild] = 1
        /\ IsConnected(s) /\ ~vs[s].stop_started
        /\ pc[M(s)] = "sleep" /\ vs[s].empty_detected = "none"

\* C13 (as the claim states it): whenever the playback loop is blocked waiting for
\* the queue-non-empty signal, the session has no current track (current,
\* current_title and current_requester were cleared and the source cleaned up).
C13_IdleHasNoCurrentTrack ==
    \A s \in Sessions :
        pc[L(s)] = "wait_queue" => vs[s].current = NoTrack

\* C14 (as the claim states it): cleanup() is never called twice on a source, and
\* a source that was enqueued and is neither in a queue any more nor the current
\* track of a session has had its cleanup() call.
InSomeQueue(t) ==
    \E g \in Guilds : \E i \in 1..Len(get_queue(g)._queue) : get_queue(g)._queue[i].id = t
HeldAsCurrent(t) == \E s \in Sessions : vs[s].current.id = t
C14_SourceCleanedExactlyOnce ==
    \A t \in TrackIds :
        /\ cleaned[t] <= 1
        /\ (t < next_id /\ ~InSomeQueue(t) /\ ~HeldAsCurrent(t)) => cleaned[t] = 1

\* C15 (as the claim states it): a playback loop that is blocked waiting for the
\* track-finished signal either has its stream still playing or finds the signal
\* set, because the completion callback set it when the stream ended.
C15_StreamEndSetsTrackFinished ==
    \A s \in Sessions :
        (pc[L(s)] = "wait_next" /\ ~cancel_req[L(s)])
        => vs[s].next \/ playing[vs[s].guild].s = s

\* C16: every add_to_queue call on a queue whose length is already max_queue_size
\* raises the queue-full error and leaves every queue, its length and the order of
\* its tracks as they were.
C16_AddToFullQueueFails ==
    [][\A g \in Guilds, u \in Users :
        (QLen(get_queue(g)) >= max_queue_size /\ AddToQueue(g, u))
        => /\ ret'.error = "queue_full"
           /\ guild_queues' = guild_queues]_vars

\* the last call was an add to a full queue: it raised and the queue is still full
C16_Witness ==
    /\ ret.op = "add" /\ ret.error = "queue_full"
    /\ QLen(get_queue(ret.guild)) = max_queue_size
    /\ Len(get_queue(ret.guild)._queue) = max_queue_size

\* C17 (as the claim states it): every add_to_queue call by a requester who already
\* has user_queue_limit tracks in the queue raises the user-limit error and leaves
\* the queue unchanged, and a call by a requester below the limit on a queue that
\* is not full succeeds.
TracksOf(g, u) ==
    Cardinality({i \in 1..Len(get_queue(g)._queue) : get_queue(g)._queue[i].req = u})
C17_AtUserLimitAlwaysUserLimitError ==
    [][\A g \in Guilds, u \in Users :
        /\ (TracksOf(g, u) >= user_queue_limit /\ AddToQueue(g, u))
           => /\ ret'.error = "user_limit"
              /\ guild_queues' = guild_queues
        /\ (/\ TracksOf(g, u) < user_queue_limit
            /\ QLen(get_queue(g)) < max_queue_size
            /\ AddToQueue(g, u))
           => /\ ret'.error = "none"
              /\ guild_queues'[g]._queue = Append(get_queue(g)._queue, Track(next_id, u))]_vars

\* C17 (amended): the same for a queue that is not full; on a full queue the call
\* raises the queue-full error instead, and the queue is unchanged as well.
C17_UserLimitFailsOthersSucceed ==
    [][\A g \in Guilds, u \in Users :
        /\ (TracksOf(g, u) >= user_queue_limit /\ AddToQueue(g, u))
           => /\ ret'.error = IF QLen(get_queue(g)) >= max_queue_size
                              THEN "queue_full" ELSE "user_limit"
              /\ guild_queues' = guild_queues
        /\ (/\ TracksOf(g, u) < user_queue_limit
            /\ QLen(get_queue(g)) < max_queue_size
            /\ AddToQueue(g, u))
           => /\ ret'.error = "none"
              /\ guild_queues'[g]._queue = Append(get_queue(g)._queue, Track(next_id, u))]_vars

\* the last call was an add by a requester at the personal limit to a queue that
\* had room: it raised the user-limit error and the queue still has room
C17_Witness ==
    /\ ret.op = "add" /\ ret.error = "user_limit"
    /\ TracksOf(ret.guild, ret.user) = user_queue_limit
    /\ QLen(get_queue(ret.guild)) < max_queue_size

\* C18: with max_queue_size = 2 and user_queue_limit = 1, on a queue that starts
\* empty: an add by A returns position 1; on the queue [A] an add by A raises the
\* user-limit error and an add by B returns position 2, the new length; on the
\* queue [A, B] an add by B raises the queue-full error, although B is at the
\* personal limit too; the failed adds leave the queue as it was, [A's, B's].
Reqs(q) == [i \in 1..Len(q._queue) |-> q._queue[i].req]
C18_LimitsScenario ==
    [][(max_queue_size = 2 /\ user_queue_limit = 1) =>
       \A g \in Guilds :
        LET q == get_queue(g)
            q2 == guild_queues'[g]
        IN
        /\ (Reqs(q) = <<>> /\ AddToQueue(g, "A"))
           => /\ ret'.error = "none" /\ ret'.position = 1
              /\ q2._queue = <<Track(next_id, "A")>> /\ QLen(q2) = 1
        /\ (Reqs(q) = <<"A">> /\ AddToQueue(g, "A"))
           => ret'.error = "user_limit" /\ q2 = q
        /\ (Reqs(q) = <<"A">> /\ AddToQueue(g, "B"))
           => /\ ret'.error = "none" /\ ret'.position = 2
              /\ q2._queue = Append(q._queue, Track(next_id, "B")) /\ QLen(q2) = 2
        /\ (Reqs(q) = <<"A", "B">> /\ AddToQueue(g, "B"))
           => ret'.error = "queue_full" /\ q2 = q]_vars

\* the end of the scenario: two adds ever went through, A's and then B's, and the
\* last call, B's second add, raised the queue-full error
C18_Witness ==
    \E g \in Guilds :
        /\ max_queue_size = 2 /\ user_queue_limit = 1
        /\ get_queue(g) = [_queue |-> <<Track(1, "A"), Track(2, "B")>>, _size |-> 2]
        /\ next_id = 3
        /\ ret = [NoRet EXCEPT !.op = "add", !.guild = g, !.user = "B", !.error = "queue_full"]

\* C19: every remove_song call with a position below 1 or above the length of the
\* queue, an empty queue included, raises the invalid-position error and leaves
\* every queue, its length and the order of its tracks as they were.
C19_InvalidPositionFails ==
    [][\A g \in Guilds, p \in Positions :
        ((p < 1 \/ p > Len(get_queue(g)._queue)) /\ RemoveSong(g, p))
        => /\ ret'.error = "invalid_position"
           /\ guild_queues' = guild_queues]_vars

\* the last call was a remove_song one position beyond the end of a queue that
\* holds a track: it raised and the track is still there
C19_Witness ==
    /\ ret.op = "remove" /\ ret.error = "invalid_position"
    /\ Len(get_queue(ret.guild)._queue) >= 1
    /\ ret.position = Len(get_queue(ret.guild)._queue) + 1

\* C20: after any sequence of add_to_queue and remove_song calls the listing of a
\* queue has as many songs as were added minus those removed, and holds exactly
\* the tracks that were added and not removed, in the order of their enqueueing
\* (track identities grow in that order); and remove_song(p) returns the track at
\* position p and leaves the others in their order.
C20_ListingIsSurvivorsInOrder ==
    /\ [](\A g \in Guilds :
            LET info == get_queue_info(g) IN
            /\ info.total_songs = Cardinality(qlog[g].adds) - Cardinality(qlog[g].removes)
            /\ Len(info.songs) = info.total_songs
            /\ {info.songs[i].id : i \in 1..Len(info.songs)} = qlog[g].adds \ qlog[g].removes
            /\ \A i, j \in 1..Len(info.songs) : i < j => info.songs[i].id < info.songs[j].id)
    /\ [][\A g \in Guilds, p \in Positions :
            LET songs == get_queue_info(g).songs IN
            (p >= 1 /\ p <= Len(songs) /\ RemoveSong(g, p))
            => /\ ret'.error = "none" /\ ret'.item = songs[p]
               /\ guild_queues'[g]._queue = SubSeq(songs, 1, p - 1) \o SubSeq(songs, p + 1, Len(songs))
               /\ \A g2 \in Guilds \ {g} : guild_queues'[g2] = guild_queues[g2]]_vars

\* three tracks were added to a queue and the one in the middle was removed by its
\* position: the listing holds the first and the third
C20_Witness ==
    \E g \in Guilds :
        /\ qlog[g] = [kept |-> TRUE, adds |-> {1, 2, 3}, removes |-> {2}]
        /\ ret.op = "remove" /\ ret.guild = g /\ ret.position = 2 /\ ret.item.id = 2
        /\ get_queue_info(g).total_songs = 2
        /\ get_queue_info(g).songs = <<Track(1, get_queue_info(g).songs[1].req),
                                        Track(3, get_queue_info(g).songs[2].req)>>

\* C21: draining law.  For every queue the program can hold, remove_song(g, 1)
\* called until the queue is empty returns the tracks in the order in which they
\* were enqueued, and get_next_song called until it returns None returns the
\* same sequence.
RECURSIVE DrainByRemove(_)
DrainByRemove(q) ==
    IF 1 < 1 \/ 1 > QLen(q) THEN <<>>
    ELSE <<removed_item(q, 1 - 1)>> \o DrainByRemove(remove_by_index(q, 1 - 1))

RECURSIVE DrainByPop(_)
DrainByPop(q) ==
    IF QLen(q) = 0 THEN <<>>
    ELSE <<Head(q._queue)>> \o DrainByPop(popleft(q))

C21_DrainingIsFifo ==
    \A g \in Guilds :
        LET q == get_queue(g)
            d == DrainByRemove(q)
        IN  /\ d = DrainByPop(q)
            /\ Len(d) = QLen(q)
            /\ {d[i].id : i \in 1..Len(d)} = qlog[g].adds \ qlog[g].removes
            /\ \A i, j \in 1..Len(d) : i < j => d[i].id < d[j].id

\* two tracks that outlived a removal between them are drained oldest first
C21_Witness ==
    /\ qlog[1].removes = {2}
    /\ DrainByRemove(get_queue(1)) = <<Track(1, "A"), Track(3, "B")>>
    /\ DrainByPop(get_queue(1)) = <<Track(1, "A"), Track(3, "B")>>

\* C22: get_queue_info, peek_queue, is_queue_empty and get_queue_length leave
\* every queue as it was (contents, order and length), whatever the queue holds;
\* peek_queue returns the head of the queue, or None when the queue is empty.
C22_ReadsLeaveQueueUnchanged ==
    [][\A g \in Guilds :
         /\ (Peek(g) \/ GetQueueInfo(g) \/ IsQueueEmpty(g) \/ GetQueueLength(g))
               => guild_queues' = guild_queues
         /\ Peek(g) =>
               ret'.item = IF Len(guild_queues[g]._queue) = 0 THEN NoTrack
                           ELSE guild_queues[g]._queue[1]]_vars

\* peek_queue has returned the head of a queue of two, which still holds both
C22_Witness ==
    /\ ret.op = "peek" /\ ret.guild = 1 /\ ret.item = Track(1, "A")
    /\ guild_queues[1]._queue = <<Track(1, "A"), Track(2, "B")>>
    /\ guild_queues[1]._size = 2

\* C23: when stop_all_voice_states returns, every stop() it started has ended, every
\* session that was registered when it was called is stopped (its loop and its
\* monitor have finished and it holds no voice connection), and the registry is
\* empty.
Stopped(s) == LDone(s) /\ MDone(s) /\ vs[s].voice = None

C23_StopAllStopsEverySession ==
    [][StopAllEnd =>
         /\ \A s \in Sessions : pc[G(s)] # "none" => pc[G(s)] = "done" /\ Stopped(s)
         /\ \A g \in Guilds : voice_states'[g] = None]_vars

\* C24: per-guild isolation.  A step of guild a (add, remove, clear, dequeue, skip,
\* stop, a step of one of its session's tasks, the end of its loop by an exception
\* included) leaves guild b's queue, registry entry, voice handle, player and the
\* fields and tasks of b's sessions as they were.
SessionsOf(g) == {s \in Sessions : vs[s].guild = g}

GuildState(g) ==
    [queue |-> guild_queues[g], registered |-> voice_states[g],
     voice |-> <<voice_client[g], connected[g], playing[g]>>,
     sessions |-> {<<s, vs[s], pc[L(s)], pc[M(s)], cancel_req[L(s)], cancel_req[M(s)]>> :
                     s \in SessionsOf(g)}]

TaskStepOf(s) ==
    \/ LStart(s) \/ LTop(s) \/ LDelMsgDone(s) \/ LWaitQueueWake(s) \/ LAnnounceDone(s)
    \/ LPlay(s) \/ LWaitNextWake(s) \/ LErrNotifyDone(s) \/ LCancelled(s) \/ LFinally(s)
    \/ LAwaitMWake(s) \/ MCancelled(s)

StepOf(a) ==
    \/ \E u \in SessUsers : PlayBegin(1, a, u)
    \/ CmdBegin(1, a, "leave") \/ CmdBegin(1, a, "skip")
    \/ /\ ctl[1].guild = a
       /\ PlayCtx(1) \/ LeaveCtx(1) \/ SkipCtx(1) \/ LeaveStopReturn(1) \/ StopStep({1})
    \/ \E p \in 1..MaxCfg : RemoveCmd(a, p)
    \/ ClearQueue(a)
    \/ \E s \in SessionsOf(a) : TaskStepOf(s)

C24_GuildsAreIsolated ==
    [][\A b \in Guilds :
         GuildState(b)' # GuildState(b) => \A a \in Guilds \ {b} : ~StepOf(a)]_vars

\* guild 1's loop has ended with an exception (no stop() was called on it) while
\* guild 2's session goes on playing its track
C24_Witness ==
    \E s1, s2 \in Sessions :
        /\ vs[s1].guild = 1 /\ pc[L(s1)] = "done" /\ ~vs[s1].stop_started
        /\ vs[s2].guild = 2 /\ voice_states[2] = s2 /\ pc[L(s2)] = "wait_next"
        /\ playing[2].s = s2 /\ vs[s2].current # NoTrack

\* C25: a save is atomic with respect to crashes. At every point of a save
\* that found a complete snapshot, where the process can stop, the file holds
\* that snapshot or the complete new one, never an empty or partial document.
C25_SaveIsCrashAtomic ==
    psave.pc # "idle" /\ psave.before.kind = "json"
        => pfile \in {psave.before, JsonFile(psave.data)}

\* C26: a completed save produces a snapshot with exactly one entry for each
\* guild with a non-empty queue or a current track; the entry's queue is the
\* metadata of the queued tracks in FIFO order and its current_song that of the
\* current track; nothing else of a track is stored.
MetaFields == {"title", "requester_id", "requester_name"}

IsSnapshotOfSessions(d) ==
    /\ DOMAIN d = {g \in Guilds : QLen(get_queue(g)) > 0 \/ current_of(g) # NoTrack}
    /\ \A g \in DOMAIN d :
        LET songs == get_queue(g)._queue
        IN  /\ Len(d[g].queue) = Len(songs)
            /\ \A i \in 1..Len(songs) :
                /\ DOMAIN d[g].queue[i] = MetaFields
                /\ d[g].queue[i].title = songs[i].id
                /\ d[g].queue[i].requester_id = songs[i].req
                /\ d[g].queue[i].requester_name = songs[i].req
            /\ d[g].current_song = SongMeta(current_of(g))

C26_SaveHoldsEveryGuild ==
    [][/\ SaveBegin => IsSnapshotOfSessions(psave'.data)
       /\ SaveWritten => pfile' = JsonFile(psave.data)
       /\ SaveStreaming => pfile'.kind = "json" /\ IsSnapshotOfSessions(pfile'.doc)]_vars

\* C27: a restore sends exactly one notice for each fresh entry of the snapshot
\* whose guild has a channel where the bot can send, and none for the other
\* entries; two fresh entries yield two notices.
RestoreFinishes == prest.pc # "done" /\ prest'.pc = "done"

C27_OneNoticePerFreshEntry ==
    [][RestoreFinishes =>
         \A g \in Guilds :
            notices'[g] = IF /\ pfile.kind = "json"
                             /\ g \in DOMAIN pfile.doc
                             /\ pfile.doc[g].fresh
                             /\ chan[g] # "none"
                          THEN 1 ELSE 0]_vars

\* C28: a restore that went through a non-empty snapshot leaves the snapshot
\* cleared, and a notice is only sent for a snapshot written since the last
\* such restore: a second restart with no save in between sends none.
C28_RestoreClearsSnapshot ==
    [][/\ prest.pc = "loop" /\ prest'.pc = "done" => pfile'.kind # "json" \/ DOMAIN pfile'.doc = {}
       /\ \A g \in Guilds : notices'[g] > notices[g] => proc.dirty]_vars

\* C29: process_url ends by returning the tuple or by raising ValueError, in
\* every state of the cache entry of the query: no other exception escapes, and
\* a query whose extraction succeeds is never failed because of the cache.
C29_ReturnsOrRaisesValueError ==
    /\ extracted.kind = "raise" => extracted.exc = "ValueError"
    /\ extracted.kind # "none" /\ extracted.extraction = "ok" =>
          extracted.kind = "return" /\ extracted.value = Result(extracted.query)

\* C30: a failure reported through handle_error with the interaction reaches
\* the user in every response state of the interaction, whenever the send
\* itself goes through.
C30_ErrorReachesUser ==
    [][\A i \in Interactions, error_type \in ErrorTypes :
         HandleError(i, error_type, TRUE) => ix'[i].errors_sent = 1]_vars

\* C31: parallel playlist processing accounts for every entry exactly once.
\* Whatever the extractions give, every entry taken from as_completed is either
\* once in songs, if it gave a song, or counted as failed; when the call
\* returns, len(songs) + failed_extractions = len(entries).
Occurrences(seq, x) == Cardinality({k \in 1..Len(seq) : seq[k] = x})

C31_EveryEntryOnce ==
    LET taken == {i \in Entries : pl.st[i] = "collected"}
    IN  /\ \A i \in Entries :
              Occurrences(pl.songs, i) =
                  IF i \in taken /\ pl.result[i] = "song" THEN 1 ELSE 0
        /\ Len(pl.songs) + pl.failed_extractions = Cardinality(taken)
        /\ pl.returned => Cardinality(taken) = pl.n

\* a playlist of three has returned: two songs, in the order in which they
\* were done, and one failure
C31_Witness ==
    pl.returned /\ pl.n = 3 /\ pl.songs = <<3, 1>> /\ pl.failed_extractions = 1

C34_CompletionCleansUp ==
    [][\A s \in Sessions :
         LWaitNextWake(s) =>
            /\ vs'[s].current = NoTrack
            /\ cleaned'[vs[s].current.id] > cleaned[vs[s].current.id]]_vars

\* C35: when leave completes for a guild with a voice connection, the
\* session's playback loop and monitor have ended, the voice connection is
\* disconnected, the guild has no registered session and its queue is empty.
C35_LeaveTearsDown ==
    [][\A c \in Callers : \A g \in Guilds : \A s \in Sessions :
         (ctl[c].guild = g /\ ctl[c].target = s /\ LeaveStopReturn(c)) =>
            /\ pc'[L(s)] \in {"done", "cancelled"}
            /\ pc'[M(s)] \in {"done", "cancelled"}
            /\ ~connected'[g]
            /\ vs'[s].voice = None
            /\ voice_states'[g] = None
            /\ guild_queues'[g]._size = 0]_vars

\* C38: in every guild's MemoryOptimizedQueue the counter _size equals the
\* number of items held in the deque, whatever QueueManager operations ran.
C38_SizeMatchesDeque ==
    \A g \in Guilds : get_queue(g)._size = Len(get_queue(g)._queue)

\* a queue that was filled, partly emptied and holds one track again
C38_Witness ==
    \E g \in Guilds :
        /\ get_queue(g)._size = 1 /\ Len(get_queue(g)._queue) = 1
        /\ get_queue(g)._queue[1].id = MaxAdds
        /\ ret.op = "remove" /\ ret.guild = g /\ ret.error = "none"

\* C36: clear_queue empties the guild's queue and returns the number of tracks
\* it removed; the current track, the playback, the voice connection and the
\* session's tasks are as before.
C36_ClearRemovesAllAndCounts ==
    [][\A g \in SessGuilds :
         Clear(g) =>
            /\ Len(guild_queues'[g]._queue) = 0
            /\ guild_queues'[g]._size = 0
            /\ ret'.value = Len(guild_queues[g]._queue)
            /\ vs' = vs /\ playing' = playing
            /\ voice_client' = voice_client /\ connected' = connected
            /\ pc' = pc /\ cancel_req' = cancel_req
            /\ voice_states' = voice_states]_vars

\* two queued tracks were cleared while a third one is playing
C36_Witness ==
    \E g \in SessGuilds :
        /\ ret.op = "clear" /\ ret.guild = g /\ ret.value = 2
        /\ QLen(get_queue(g)) = 0
        /\ playing[g].s # None
        /\ \E s \in Sessions : voice_states[g] = s /\ vs[s].current # NoTrack

\* C37: a skip issued while the session's track is playing stops the stream and
\* sets the track-finished signal, with which the loop goes on to the head of the
\* queue (or idles); a skip issued while nothing is playing changes neither the
\* queue nor the session.
C37_SkipAdvancesLoop ==
    [][\A c \in Callers : \A g \in SessGuilds : \A s \in Sessions :
         (ctl[c].guild = g /\ voice_states[g] = s /\ SkipCtx(c)) =>
            IF is_playing(s) /\ playing[g].s = s
            THEN /\ playing'[g].s = None
                 /\ vs'[s].next
            ELSE /\ vs' = vs /\ playing' = playing
                 /\ guild_queues' = guild_queues]_vars

\* C39: extract_error_details puts discord.Forbidden in the permission category,
\* discord.NotFound in the command category and every other discord.HTTPException
\* in the network category.
C39_DiscordErrorsClassified ==
    /\ classified.error = "Forbidden" => classified.category = "permission"
    /\ classified.error = "NotFound" => classified.category = "command"
    /\ (classified.error \in {"HTTPException", "DiscordServerError"})
          => classified.category = "network"

====
